---- MODULE Spec2Model ----
(***************************************************************************)
(* CarbonDataAnalyzer (src/src/components/CarbonDataAnalyzer.js).          *)
(*                                                                         *)
(* The analyzer object holds one field, this.data, and offers methods     *)
(* that compute a result from it.  The state is the field, the method     *)
(* called last and what it returned, and the time zone of the process,    *)
(* which Date uses to read a date string and to take a date apart.        *)
(*                                                                         *)
(* JavaScript Numbers are modelled as exact rationals [n, d] (d > 0, in   *)
(* lowest terms), so a division, a rounding by toFixed or a comparison is *)
(* what it is in the code up to the binary rounding of doubles; the       *)
(* non-finite doubles (NaN, Infinity) are modelled where the code can     *)
(* produce them (a division the code does not guard).                     *)
(***************************************************************************)
EXTENDS Integers, Sequences, FiniteSets, TLC

VARIABLES data, call, ret, tzOffset

vars == <<data, call, ret, tzOffset>>

-----------------------------------------------------------------------------
(* Numbers *)

Abs(x) == IF x < 0 THEN -x ELSE x

RECURSIVE GCD(_, _)
GCD(a, b) == IF b = 0 THEN a ELSE GCD(b, a % b)

\* The rational n/d in lowest terms with a positive denominator (d # 0).
Rat(n, d) ==
    LET s == IF d < 0 THEN -1 ELSE 1
        g == GCD(Abs(n), Abs(d))
    IN [n |-> (s * n) \div g, d |-> Abs(d) \div g]

R(k) == [n |-> k, d |-> 1]

\* The operations keep the terms small: denominators are brought to their
\* least common multiple and products are cancelled before multiplying.
RAdd(a, b) ==
    LET g == GCD(a.d, b.d)
    IN Rat(a.n * (b.d \div g) + b.n * (a.d \div g), (a.d \div g) * b.d)
RSub(a, b) ==
    LET g == GCD(a.d, b.d)
    IN Rat(a.n * (b.d \div g) - b.n * (a.d \div g), (a.d \div g) * b.d)
RMul(a, b) ==
    LET g1 == GCD(Abs(a.n), b.d)
        g2 == GCD(Abs(b.n), a.d)
    IN [n |-> (a.n \div g1) * (b.n \div g2), d |-> (a.d \div g2) * (b.d \div g1)]
RDiv(a, b) ==
    RMul(a, IF b.n < 0 THEN [n |-> -b.d, d |-> -b.n] ELSE [n |-> b.d, d |-> b.n])
\* The doubles that are no numbers: 0/0 and x/0.
NaN == [n |-> 0, d |-> 0]
Infinity == [n |-> 1, d |-> 0]
IsFinite(a) == a.d > 0

\* a / b as the language evaluates it, b = 0 included (a >= 0).
Div(a, b) == IF b.n = 0 THEN (IF a.n = 0 THEN NaN ELSE Infinity) ELSE RDiv(a, b)

RNeg(a) == [n |-> -a.n, d |-> a.d]
RAbs(a) == [n |-> Abs(a.n), d |-> a.d]
RSq(a) == RMul(a, a)
RLt(a, b) == LET g == GCD(a.d, b.d) IN a.n * (b.d \div g) < b.n * (a.d \div g)
RGt(a, b) == RLt(b, a)
RLe(a, b) == ~RLt(b, a)
RMax(a, b) == IF RLt(a, b) THEN b ELSE a

RECURSIVE RSumTo(_, _)
RSumTo(s, k) == IF k = 0 THEN R(0) ELSE RAdd(RSumTo(s, k - 1), s[k])

\* s.reduce((sum, val) => sum + val, 0)
RSum(s) == RSumTo(s, Len(s))

Pow10(k) == CASE k = 0 -> 1 [] k = 1 -> 10 [] k = 2 -> 100 [] k = 3 -> 1000 [] k = 4 -> 10000

\* Number.prototype.toFixed(k) read back by parseFloat: the nearest multiple
\* of 10^-k, a tie going away from zero.
Fixed(a, k) ==
    IF ~IsFinite(a) THEN a
    ELSE LET whole == Abs(a.n) \div a.d
             m == (Abs(a.n) % a.d) * Pow10(k)
             rest == m % a.d
             q == whole * Pow10(k) + (m \div a.d) + (IF rest >= a.d - rest THEN 1 ELSE 0)
         IN Rat(IF a.n < 0 THEN -q ELSE q, Pow10(k))

RECURSIVE SqrtSearch(_, _, _)
SqrtSearch(x, lo, hi) ==
    IF lo >= hi THEN lo
    ELSE LET mid == (lo + hi + 1) \div 2
         IN IF mid * mid <= x THEN SqrtSearch(x, mid, hi) ELSE SqrtSearch(x, lo, mid - 1)

\* floor(sqrt(x)) for an integer x >= 0
ISqrt(x) == SqrtSearch(x, 0, IF x < 46340 THEN x ELSE 46340)

MapSeq(s, F(_)) == [i \in 1..Len(s) |-> F(s[i])]

-----------------------------------------------------------------------------
(* Readings *)

\* this.data is an array or null; an omitted argument is undefined.
Null == [isNull |-> TRUE, items |-> <<>>]
Arr(s) == [isNull |-> FALSE, items |-> s]
Undefined == [n |-> 0, d |-> -1]

Reading(id, ts, b, dev, em, en, name) ==
    [id |-> id, timestamp |-> ts, buildingId |-> b, deviceId |-> dev,
     carbonEmissions |-> em, energyConsumption |-> en,
     metadata |-> [buildingName |-> name, deviceType |-> ""]]

-----------------------------------------------------------------------------
(* detectAnomalies *)

Emissions(d) == MapSeq(d, LAMBDA item : item.carbonEmissions)
Energy(d) == MapSeq(d, LAMBDA item : item.energyConsumption)

Mean(vals) == RDiv(RSum(vals), R(Len(vals)))

\* The square of the standard deviation: what the code takes the root of.
Variance(vals, mean) ==
    RDiv(RSum(MapSeq(vals, LAMBDA v : RSq(RSub(v, mean)))), R(Len(vals)))

\* (value - mean) / stdDev as a double: 0/0 is NaN, x/0 is +-Infinity, and a
\* finite quotient is kept as its sign and its square (stdDev is a root).
ZScore(v, mean, var) ==
    LET diff == RSub(v, mean)
    IN IF var.n = 0
       THEN IF diff.n = 0 THEN [kind |-> "NaN"]
            ELSE IF diff.n > 0 THEN [kind |-> "Infinity"]
            ELSE [kind |-> "-Infinity"]
       ELSE [kind |-> "finite", neg |-> diff.n < 0, sq |-> RDiv(RSq(diff), var)]

\* Math.abs(z) >= threshold: the comparison with the boundary included.
AbsGe(z, t) ==
    CASE z.kind = "NaN" -> FALSE
      [] z.kind \in {"Infinity", "-Infinity"} -> TRUE
      [] OTHER -> IF t.n < 0 THEN TRUE ELSE RLe(RSq(t), z.sq)

\* Math.abs(z) > threshold
AbsGt(z, t) ==
    CASE z.kind = "NaN" -> FALSE
      [] z.kind \in {"Infinity", "-Infinity"} -> TRUE
      [] OTHER -> IF t.n < 0 THEN TRUE ELSE RGt(z.sq, RSq(t))

\* Math.abs(a) > Math.abs(b)
AbsGtAbs(a, b) ==
    CASE a.kind = "NaN" \/ b.kind = "NaN" -> FALSE
      [] a.kind \in {"Infinity", "-Infinity"} -> b.kind = "finite"
      [] b.kind \in {"Infinity", "-Infinity"} -> FALSE
      [] OTHER -> RGt(a.sq, b.sq)

\* z.toFixed(2): the text of a non-finite double is its name; a finite one is
\* rounded to hundredths, the sign kept ("-0.00").
ZFixed2(z) ==
    IF z.kind # "finite" THEN [text |-> z.kind]
    ELSE LET s == ISqrt((40000 * z.sq.n) \div z.sq.d)
         IN [text |-> "number", neg |-> z.neg, hundredths |-> (s + 1) \div 2]

\* The condition of the if in the forEach callback.
IsAnomalous(emissionsZScore, energyZScore, threshold) ==
    AbsGt(emissionsZScore, threshold) \/ AbsGt(energyZScore, threshold)

Anomaly(item, emissionsZScore, energyZScore) ==
    [id |-> item.id, timestamp |-> item.timestamp,
     buildingId |-> item.buildingId, deviceId |-> item.deviceId,
     carbonEmissions |-> item.carbonEmissions,
     energyConsumption |-> item.energyConsumption,
     emissionsZScore |-> ZFixed2(emissionsZScore),
     energyZScore |-> ZFixed2(energyZScore),
     reason |-> IF AbsGtAbs(emissionsZScore, energyZScore)
                THEN "Unusual carbon emissions"
                ELSE "Unusual energy consumption"]

\* this.data.forEach(...) over the first k readings
RECURSIVE AnomalyLoop(_, _, _, _, _)
AnomalyLoop(items, k, em, en, threshold) ==
    IF k = 0 THEN <<>>
    ELSE LET emissionsZScore == ZScore(items[k].carbonEmissions, em.mean, em.var)
             energyZScore == ZScore(items[k].energyConsumption, en.mean, en.var)
             before == AnomalyLoop(items, k - 1, em, en, threshold)
         IN IF IsAnomalous(emissionsZScore, energyZScore, threshold)
            THEN Append(before, Anomaly(items[k], emissionsZScore, energyZScore))
            ELSE before

Stats(vals) == LET m == Mean(vals) IN [mean |-> m, var |-> Variance(vals, m)]

DefaultThreshold == R(2)

\* detectAnomalies passing over the test of the length for an array that
\* has readings.
detectAnomaliesOfAnyLength(d, threshold) ==
    LET t == IF threshold = Undefined THEN DefaultThreshold ELSE threshold
    IN IF d.isNull \/ Len(d.items) = 0 THEN <<>>
       ELSE AnomalyLoop(d.items, Len(d.items), Stats(Emissions(d.items)),
                        Stats(Energy(d.items)), t)

detectAnomalies(d, threshold) ==
    LET t == IF threshold = Undefined THEN DefaultThreshold ELSE threshold
    IN IF d.isNull \/ Len(d.items) < 5 THEN <<>>
       ELSE AnomalyLoop(d.items, Len(d.items), Stats(Emissions(d.items)),
                        Stats(Energy(d.items)), t)

-----------------------------------------------------------------------------
(* Inputs of the anomaly detector *)

MaxAnomalyLen == 5

\* The emissions and the energy of a reading: both low, or one of them high.
AnomalyValues == {<<R(10), R(10)>>, <<R(100), R(10)>>, <<R(10), R(100)>>}

AnomalyData(len) ==
    { Arr([i \in 1..len |->
              Reading(i, i, "B-101", "D-1", f[i][1], f[i][2], "")]) :
      f \in [1..len -> AnomalyValues] }

\* The readings of the example of section 8 of the specification.
ExampleAnomalyData ==
    Arr([i \in 1..10 |->
            Reading(i, i, "B-101", "D-1",
                    IF i = 10 THEN R(100) ELSE R(10), IF i = 10 THEN R(100) ELSE R(10), "")])

\* Four readings, the last a million times the others.
ExtremeAnomalyData ==
    Arr([i \in 1..4 |->
            Reading(i, i, "B-101", "D-1",
                    IF i = 4 THEN R(1000000) ELSE R(1), IF i = 4 THEN R(1000000) ELSE R(1), "")])

AnomalyInputs ==
    UNION { AnomalyData(len) : len \in 0..MaxAnomalyLen }
        \cup {ExampleAnomalyData, ExtremeAnomalyData, Null}

Thresholds == {Undefined, R(-1), R(1), Rat(3, 2), R(2)}

NoCall == [op |-> "none"]

InitAnomaly ==
    /\ data \in AnomalyInputs
    /\ call = NoCall
    /\ ret = <<>>
    /\ tzOffset = 0

DetectAnomalies ==
    \E t \in Thresholds :
        /\ call' = [op |-> "detectAnomalies", threshold |-> t]
        /\ ret' = detectAnomalies(data, t)
        /\ UNCHANGED <<data, tzOffset>>

NextAnomaly == DetectAnomalies

SpecAnomaly == InitAnomaly /\ [][NextAnomaly]_vars

-----------------------------------------------------------------------------
(* Properties of detectAnomalies *)

ThresholdOf(c) == IF c.threshold = Undefined THEN R(2) ELSE c.threshold

PopulationMean(vals) == RDiv(RSumTo(vals, Len(vals)), R(Len(vals)))

PopulationVariance(vals) ==
    LET mu == PopulationMean(vals)
        sq == [i \in 1..Len(vals) |-> RMul(RSub(vals[i], mu), RSub(vals[i], mu))]
    IN RDiv(RSumTo(sq, Len(sq)), R(Len(vals)))

\* v lies more than t population standard deviations from the population
\* mean of vals: |v - mu| > t * sigma, compared through the squares.
LiesBeyond(v, vals, t) ==
    LET mu == PopulationMean(vals)
        var == PopulationVariance(vals)
        dist2 == RMul(RSub(v, mu), RSub(v, mu))
    IN IF t.n < 0 THEN var.n > 0 \/ dist2.n > 0
       ELSE RGt(dist2, RMul(RMul(t, t), var))

IsOutlier(item, items, t) ==
    \/ LiesBeyond(item.carbonEmissions, Emissions(items), t)
    \/ LiesBeyond(item.energyConsumption, Energy(items), t)

Ids(s) == [i \in 1..Len(s) |-> s[i].id]

AnomalyCallReturned == call.op = "detectAnomalies" /\ ~data.isNull /\ Len(data.items) >= 5

\* C1: on at least 5 readings detectAnomalies(t) returns exactly the readings
\* one of whose two metrics lies more than t population standard deviations
\* from that metric's population mean, each once and in input order.
C1_ExactlyTheOutliers ==
    AnomalyCallReturned =>
        LET t == ThresholdOf(call)
        IN Ids(ret) = Ids(SelectSeq(data.items, LAMBDA item : IsOutlier(item, data.items, t)))

\* The example of C1: nine readings of 10 and one of 100, threshold 2, and
\* the reading of 100 is the only one returned.
C1_Witness ==
    /\ call.op = "detectAnomalies"
    /\ data = ExampleAnomalyData
    /\ call.threshold = R(2)
    /\ Ids(ret) = <<10>>

IsConstant(vals) == \A i \in 1..Len(vals) : vals[i] = vals[1]

\* C2: when one metric is the same in every reading and the other varies,
\* every anomaly returned carries two finite z-scores and was flagged by the
\* varying metric; when both metrics are constant nothing is returned.
C2_NoNonFiniteZScore ==
    AnomalyCallReturned =>
        LET t == ThresholdOf(call)
            em == Emissions(data.items)
            en == Energy(data.items)
        IN /\ (IsConstant(em) /\ IsConstant(en)) => ret = <<>>
           /\ (IsConstant(em) # IsConstant(en)) =>
                 \A i \in 1..Len(ret) :
                    /\ ret[i].emissionsZScore.text = "number"
                    /\ ret[i].energyZScore.text = "number"
                    /\ IF IsConstant(em)
                       THEN LiesBeyond(ret[i].energyConsumption, en, t)
                       ELSE LiesBeyond(ret[i].carbonEmissions, em, t)

-----------------------------------------------------------------------------
(* calculateCarbonIntensity *)

HasId(s, id) == \E i \in 1..Len(s) : s[i].id = id

\* a || b on strings: the empty string is falsy, like a missing value.
OrElse(a, b) == IF a = "" THEN b ELSE a

\* building.devices[item.deviceId], created on first use, then += the reading
AddToDevices(devices, item) ==
    LET created ==
            IF HasId(devices, item.deviceId) THEN devices
            ELSE Append(devices, [id |-> item.deviceId,
                                  type |-> OrElse(item.metadata.deviceType, "unknown"),
                                  totalEmissions |-> R(0), totalEnergy |-> R(0),
                                  intensity |-> R(0)])
        at == CHOOSE i \in 1..Len(created) : created[i].id = item.deviceId
    IN [created EXCEPT
          ![at].totalEmissions = RAdd(@, item.carbonEmissions),
          ![at].totalEnergy = RAdd(@, item.energyConsumption)]

\* buildings[item.buildingId], created on first use, then += the reading
AddToBuildings(buildings, item) ==
    LET created ==
            IF HasId(buildings, item.buildingId) THEN buildings
            ELSE Append(buildings, [id |-> item.buildingId,
                                    name |-> OrElse(item.metadata.buildingName, item.buildingId),
                                    totalEmissions |-> R(0), totalEnergy |-> R(0),
                                    intensity |-> R(0), devices |-> <<>>])
        at == CHOOSE i \in 1..Len(created) : created[i].id = item.buildingId
    IN [created EXCEPT
          ![at].totalEmissions = RAdd(@, item.carbonEmissions),
          ![at].totalEnergy = RAdd(@, item.energyConsumption),
          ![at].devices = AddToDevices(@, item)]

\* this.data.forEach(...) over the first k readings; the object's values in
\* insertion order (the ids are no array indices).
RECURSIVE GroupByBuilding(_, _)
GroupByBuilding(items, k) ==
    IF k = 0 THEN <<>> ELSE AddToBuildings(GroupByBuilding(items, k - 1), items[k])

\* The guarded quotient without its guard.
IntensityUnguarded(totalEmissions, totalEnergy) == Div(totalEmissions, totalEnergy)

\* totalEnergy > 0 ? totalEmissions / totalEnergy : 0
Intensity(totalEmissions, totalEnergy) ==
    IF RGt(totalEnergy, R(0)) THEN Div(totalEmissions, totalEnergy) ELSE R(0)

\* The first k elements in the order they have.
KeptInOrder(s, k) == SubSeq(s, 1, k)

\* Array.prototype.sort((a, b) => b.intensity - a.intensity): stable, descending
InsertByIntensity(sorted, x) ==
    LET pos == Cardinality({i \in 1..Len(sorted) : RLe(x.intensity, sorted[i].intensity)})
    IN SubSeq(sorted, 1, pos) \o <<x>> \o SubSeq(sorted, pos + 1, Len(sorted))

RECURSIVE SortByIntensity(_, _)
SortByIntensity(s, k) ==
    IF k = 0 THEN <<>> ELSE InsertByIntensity(SortByIntensity(s, k - 1), s[k])

Rounded(x) ==
    [x EXCEPT !.totalEmissions = Fixed(@, 2), !.totalEnergy = Fixed(@, 2),
              !.intensity = Fixed(@, 4)]

DevicesArray(devices) ==
    LET withIntensity ==
            [i \in 1..Len(devices) |->
                [devices[i] EXCEPT
                   !.intensity = Intensity(devices[i].totalEmissions, devices[i].totalEnergy)]]
        rounded == [i \in 1..Len(devices) |-> Rounded(withIntensity[i])]
    IN SortByIntensity(rounded, Len(rounded))

calculateCarbonIntensity(d) ==
    IF d.isNull \/ Len(d.items) = 0 THEN [buildings |-> <<>>, average |-> R(0)]
    ELSE LET buildings == GroupByBuilding(d.items, Len(d.items))
             withIntensity ==
                 [i \in 1..Len(buildings) |->
                     [buildings[i] EXCEPT
                        !.intensity = Intensity(buildings[i].totalEmissions,
                                                buildings[i].totalEnergy),
                        !.devices = DevicesArray(@)]]
             totalEmissions == RSum([i \in 1..Len(buildings) |-> buildings[i].totalEmissions])
             totalEnergy == RSum([i \in 1..Len(buildings) |-> buildings[i].totalEnergy])
             averageIntensity == Intensity(totalEmissions, totalEnergy)
             buildingsArray == [i \in 1..Len(buildings) |-> Rounded(withIntensity[i])]
         IN [buildings |-> SortByIntensity(buildingsArray, Len(buildingsArray)),
             average |-> Fixed(averageIntensity, 4)]

-----------------------------------------------------------------------------
(* Inputs of the intensity calculation *)

MaxIntensityLen == 2

IntensityEmissions == {Rat(1, 250), R(1)}
IntensityEnergy == {R(0), R(3)}

IntensityData(len) ==
    { Arr([i \in 1..len |-> Reading(i, i, g[i][1], g[i][2], g[i][3], g[i][4], "")]) :
      g \in [1..len -> {"B-101", "B-102"} \X {"D-1", "D-2"}
                          \X IntensityEmissions \X IntensityEnergy] }

IntensityInputs == UNION { IntensityData(len) : len \in 0..MaxIntensityLen } \cup {Null}

InitIntensity ==
    /\ data \in IntensityInputs
    /\ call = NoCall
    /\ ret = <<>>
    /\ tzOffset = 0

CalculateCarbonIntensity ==
    /\ call' = [op |-> "calculateCarbonIntensity"]
    /\ ret' = calculateCarbonIntensity(data)
    /\ UNCHANGED <<data, tzOffset>>

NextIntensity == CalculateCarbonIntensity

SpecIntensity == InitIntensity /\ [][NextIntensity]_vars

\* C16: detectAnomalies of fewer than 5 readings, or of no array, returns
\* an empty list whatever the threshold and the values are.
C16_FewReadingsNoAnomalies ==
    (call.op = "detectAnomalies" /\ (data.isNull \/ Len(data.items) < 5)) => ret = <<>>

\* Four readings with one far from the others, under the threshold -1 that
\* every finite z-score exceeds.
C16_Witness ==
    /\ call.op = "detectAnomalies"
    /\ call.threshold = R(-1)
    /\ data = ExtremeAnomalyData
    /\ ret = <<>>

-----------------------------------------------------------------------------
(* Properties of calculateCarbonIntensity *)

ReadingsOf(items, b) == SelectSeq(items, LAMBDA item : item.buildingId = b)
ReadingsOfDevice(items, b, dev) ==
    SelectSeq(items, LAMBDA item : item.buildingId = b /\ item.deviceId = dev)

SumEmissions(items) == RSumTo(Emissions(items), Len(items))
SumEnergy(items) == RSumTo(Energy(items), Len(items))

\* (sum of emissions) / (sum of energy), or 0 when the energy sum is 0
ExactIntensity(items) ==
    IF SumEnergy(items).n > 0 THEN RDiv(SumEmissions(items), SumEnergy(items)) ELSE R(0)

SumField(s, F(_)) == RSumTo([i \in 1..Len(s) |-> F(s[i])], Len(s))

IntensityCallReturned == call.op = "calculateCarbonIntensity" /\ ~data.isNull

TwoDecimals(x) == 100 % x.d = 0

\* C3 as stated: every intensity of the result is the exact quotient of the
\* group's sums (0 for a zero energy sum), the average likewise, and a
\* building's totals are the sums of its devices' totals.
C3_ExactIntensity ==
    IntensityCallReturned =>
        /\ ret.average = ExactIntensity(data.items)
        /\ \A i \in 1..Len(ret.buildings) :
              LET b == ret.buildings[i]
              IN /\ b.intensity = ExactIntensity(ReadingsOf(data.items, b.id))
                 /\ b.totalEmissions = SumField(b.devices, LAMBDA dev : dev.totalEmissions)
                 /\ b.totalEnergy = SumField(b.devices, LAMBDA dev : dev.totalEnergy)
                 /\ \A j \in 1..Len(b.devices) :
                       b.devices[j].intensity =
                           ExactIntensity(ReadingsOfDevice(data.items, b.id, b.devices[j].id))

\* C3 as amended: the intensities are the quotients rounded to 4 decimals and
\* the totals the sums rounded to 2 decimals; a building's totals are the
\* rounded sums over its devices' readings, and the sums of its devices'
\* totals when its readings have at most 2 decimals; every number is finite.
C3_RoundedIntensity ==
    IntensityCallReturned =>
        /\ ret.average = Fixed(ExactIntensity(data.items), 4)
        /\ IsFinite(ret.average)
        /\ \A i \in 1..Len(ret.buildings) :
              LET b == ret.buildings[i]
                  rs == ReadingsOf(data.items, b.id)
              IN /\ b.intensity = Fixed(ExactIntensity(rs), 4)
                 /\ b.totalEmissions = Fixed(SumEmissions(rs), 2)
                 /\ b.totalEnergy = Fixed(SumEnergy(rs), 2)
                 /\ IsFinite(b.intensity)
                 /\ (\A k \in 1..Len(rs) : TwoDecimals(rs[k].carbonEmissions)) =>
                       b.totalEmissions = SumField(b.devices, LAMBDA dev : dev.totalEmissions)
                 /\ (\A k \in 1..Len(rs) : TwoDecimals(rs[k].energyConsumption)) =>
                       b.totalEnergy = SumField(b.devices, LAMBDA dev : dev.totalEnergy)
                 /\ \A j \in 1..Len(b.devices) :
                       LET dev == b.devices[j]
                           ds == ReadingsOfDevice(data.items, b.id, dev.id)
                       IN /\ dev.intensity = Fixed(ExactIntensity(ds), 4)
                          /\ dev.totalEmissions = Fixed(SumEmissions(ds), 2)
                          /\ dev.totalEnergy = Fixed(SumEnergy(ds), 2)
                          /\ IsFinite(dev.intensity)

\* A building whose quotient 1/3 is returned as 0.3333 beside a building
\* without energy, whose intensity is 0.
C3_Witness ==
    /\ call.op = "calculateCarbonIntensity"
    /\ Len(ret.buildings) = 2
    /\ ret.buildings[1].intensity = Rat(3333, 10000)
    /\ ret.buildings[2].totalEnergy = R(0)
    /\ ret.buildings[2].totalEmissions = R(1)
    /\ ret.buildings[2].intensity = R(0)

\* s is in non-increasing order of intensity.
NonIncreasing(s) == \A i \in 1..(Len(s) - 1) : RLe(s[i + 1].intensity, s[i].intensity)

\* No id appears twice in s.
UniqueIds(s) == \A i \in 1..Len(s) : \A j \in 1..Len(s) : s[i].id = s[j].id => i = j

\* Buildings and the devices of each building are in non-increasing order
\* of intensity, every building of the readings appears once and every
\* device of a building once within it.
SortedAndUnique ==
    /\ NonIncreasing(ret.buildings)
    /\ UniqueIds(ret.buildings)
    /\ {ret.buildings[i].id : i \in 1..Len(ret.buildings)}
           = {data.items[k].buildingId : k \in 1..Len(data.items)}
    /\ \A i \in 1..Len(ret.buildings) :
          LET b == ret.buildings[i]
          IN /\ NonIncreasing(b.devices)
             /\ UniqueIds(b.devices)
             /\ {b.devices[j].id : j \in 1..Len(b.devices)}
                    = {data.items[k].deviceId :
                          k \in {k \in 1..Len(data.items) : data.items[k].buildingId = b.id}}
             /\ RLe(b.intensity, ret.buildings[1].intensity)

\* A building of the readings whose energy sums to 0 while its emissions
\* do not.
EmissionsWithoutEnergy ==
    \E k \in 1..Len(data.items) :
        LET rs == ReadingsOf(data.items, data.items[k].buildingId)
        IN SumEnergy(rs).n = 0 /\ SumEmissions(rs).n > 0

\* C17 as stated: the lists are sorted and without repetition, and the
\* first building's intensity is at least the average whenever the total
\* energy is positive.
C17_FirstBuildingAtLeastAverage ==
    (IntensityCallReturned /\ Len(data.items) > 0) =>
        /\ SortedAndUnique
        /\ SumEnergy(data.items).n > 0 =>
               RLe(ret.average, ret.buildings[1].intensity)

\* C17 as amended: the lists are sorted and without repetition, and the
\* first building's intensity is at least the average whenever the total
\* energy is positive and no building has emissions with an energy sum of 0.
C17_FirstBuildingAtLeastAverageOfMetered ==
    (IntensityCallReturned /\ Len(data.items) > 0) =>
        /\ SortedAndUnique
        /\ (SumEnergy(data.items).n > 0 /\ ~EmissionsWithoutEnergy) =>
               RLe(ret.average, ret.buildings[1].intensity)

\* Two buildings of positive energy, the one read second of the higher
\* intensity and so first in the result, above the average.
C17_Witness ==
    /\ call.op = "calculateCarbonIntensity"
    /\ ~data.isNull
    /\ Len(data.items) = 2
    /\ Len(ret.buildings) = 2
    /\ ret.buildings[1].id = data.items[2].buildingId
    /\ RGt(ret.buildings[2].totalEnergy, R(0))
    /\ RGt(ret.buildings[1].intensity, ret.average)
    /\ RGt(ret.average, ret.buildings[2].intensity)

-----------------------------------------------------------------------------
(* identifyTrends *)

\* Timestamps are whole hours of local time counted from the midnight that
\* begins a Sunday, so that the hour, the day and the day of the week of a
\* timestamp are what Date's getters return.
HoursPerDay == 24
DaysPerWeek == 7

DayOf(ts) == ts \div HoursPerDay
\* date.getDay(): 0 is Sunday
WeekdayOf(ts) == DayOf(ts) % DaysPerWeek

\* The key of the bucket of a reading: the hour, the day, the Sunday that
\* begins the week; any other interval leaves the key undefined.
IntervalKey(interval, ts) ==
    CASE interval = "hour" -> [kind |-> "hour", at |-> ts]
      [] interval = "day" -> [kind |-> "day", at |-> DayOf(ts)]
      [] interval = "week" -> [kind |-> "Week of", at |-> DayOf(ts) - WeekdayOf(ts)]
      [] OTHER -> [kind |-> "undefined", at |-> 0]

\* [...this.data].sort((a, b) => new Date(a.timestamp) - new Date(b.timestamp))
InsertByTime(sorted, x) ==
    LET pos == Cardinality({i \in 1..Len(sorted) : sorted[i].timestamp <= x.timestamp})
    IN SubSeq(sorted, 1, pos) \o <<x>> \o SubSeq(sorted, pos + 1, Len(sorted))

RECURSIVE SortByTime(_, _)
SortByTime(s, k) == IF k = 0 THEN <<>> ELSE InsertByTime(SortByTime(s, k - 1), s[k])

\* groupedData[key], created on first use, then += the reading
AddToGroups(groups, key, item) ==
    LET created ==
            IF \E i \in 1..Len(groups) : groups[i].interval = key THEN groups
            ELSE Append(groups, [interval |-> key, totalEmissions |-> R(0),
                                 totalEnergy |-> R(0), count |-> 0])
        at == CHOOSE i \in 1..Len(created) : created[i].interval = key
    IN [created EXCEPT
          ![at].totalEmissions = RAdd(@, item.carbonEmissions),
          ![at].totalEnergy = RAdd(@, item.energyConsumption),
          ![at].count = @ + 1]

RECURSIVE GroupByInterval(_, _, _)
GroupByInterval(sortedData, k, interval) ==
    IF k = 0 THEN <<>>
    ELSE AddToGroups(GroupByInterval(sortedData, k - 1, interval),
                     IntervalKey(interval, sortedData[k].timestamp), sortedData[k])

\* Object.values(groupedData).map(...)
TrendOf(group) ==
    [interval |-> group.interval,
     totalEmissions |-> Fixed(group.totalEmissions, 2),
     totalEnergy |-> Fixed(group.totalEnergy, 2),
     averageEmissions |-> Fixed(RDiv(group.totalEmissions, R(group.count)), 2),
     averageEnergy |-> Fixed(RDiv(group.totalEnergy, R(group.count)), 2),
     count |-> group.count]

\* The quotients of the regression without their guards.
SlopeUnguarded(numerator, denominator) == Div(numerator, denominator)
RSquaredUnguarded(ssResidual, ssTotal) ==
    IF ssTotal.n = 0 THEN NaN ELSE RSub(R(1), RDiv(ssResidual, ssTotal))

\* denominator !== 0 ? numerator / denominator : 0
Slope(numerator, denominator) ==
    IF denominator.n # 0 THEN RDiv(numerator, denominator) ELSE R(0)

\* The share of the variance left unexplained, taken for the share explained.
RSquaredResidualShare(ssResidual, ssTotal) ==
    IF ssTotal.n # 0 THEN RDiv(ssResidual, ssTotal) ELSE R(0)

\* ssTotal !== 0 ? 1 - (ssResidual / ssTotal) : 0
RSquared(ssResidual, ssTotal) ==
    IF ssTotal.n # 0 THEN RSub(R(1), RDiv(ssResidual, ssTotal)) ELSE R(0)

\* The least-squares line through (0, y[1]), (1, y[2]), ...
Regression(yValues) ==
    LET n == Len(yValues)
        xValues == [i \in 1..n |-> R(i - 1)]
        xMean == RDiv(RSum(xValues), R(n))
        yMean == RDiv(RSum(yValues), R(n))
        numerator ==
            RSum([i \in 1..n |-> RMul(RSub(xValues[i], xMean), RSub(yValues[i], yMean))])
        denominator == RSum([i \in 1..n |-> RSq(RSub(xValues[i], xMean))])
        slope == Slope(numerator, denominator)
        yIntercept == RSub(yMean, RMul(slope, xMean))
        predicted == [i \in 1..n |-> RAdd(RMul(slope, xValues[i]), yIntercept)]
        ssResidual == RSum([i \in 1..n |-> RSq(RSub(yValues[i], predicted[i]))])
        ssTotal == RSum([i \in 1..n |-> RSq(RSub(yValues[i], yMean))])
    IN [slope |-> slope, yIntercept |-> yIntercept, predicted |-> predicted,
        rSquared |-> RSquared(ssResidual, ssTotal)]

\* slope >= 0 taken for an increase
TrendDirectionNoStable(slope) == IF RLe(R(0), slope) THEN "increasing" ELSE "decreasing"

\* slope > 0 ? 'increasing' : slope < 0 ? 'decreasing' : 'stable'
TrendDirection(slope) ==
    IF RGt(slope, R(0)) THEN "increasing"
    ELSE IF RLt(slope, R(0)) THEN "decreasing" ELSE "stable"

\* rSquared > 0.7 ? 'strong' : rSquared > 0.3 ? 'moderate' : 'weak'
TrendStrength(rSquared) ==
    IF RGt(rSquared, Rat(7, 10)) THEN "strong"
    ELSE IF RGt(rSquared, Rat(3, 10)) THEN "moderate" ELSE "weak"

\* Math.abs(slope) > 0.1 && rSquared > 0.3
HasSignificantTrend(slope, rSquared) ==
    RGt(RAbs(slope), Rat(1, 10)) /\ RGt(rSquared, Rat(3, 10))

DefaultInterval == "day"

identifyTrends(d, intervalArg) ==
    IF d.isNull \/ Len(d.items) = 0
    THEN [trends |-> <<>>, hasSignificantTrend |-> FALSE]
    ELSE LET interval == IF intervalArg = "undefined" THEN DefaultInterval ELSE intervalArg
             sortedData == SortByTime(d.items, Len(d.items))
             groupedData == GroupByInterval(sortedData, Len(sortedData), interval)
             trends == [i \in 1..Len(groupedData) |-> TrendOf(groupedData[i])]
             fit == Regression([i \in 1..Len(trends) |-> trends[i].averageEmissions])
         IN [trends |->
                [i \in 1..Len(trends) |->
                    [interval |-> trends[i].interval,
                     totalEmissions |-> trends[i].totalEmissions,
                     totalEnergy |-> trends[i].totalEnergy,
                     averageEmissions |-> trends[i].averageEmissions,
                     averageEnergy |-> trends[i].averageEnergy,
                     count |-> trends[i].count,
                     predicted |-> Fixed(fit.predicted[i], 2),
                     deviation |->
                         Fixed(RSub(trends[i].averageEmissions, fit.predicted[i]), 2)]],
             analysis |->
                [slope |-> Fixed(fit.slope, 4),
                 yIntercept |-> Fixed(fit.yIntercept, 4),
                 rSquared |-> Fixed(fit.rSquared, 4),
                 direction |-> TrendDirection(fit.slope),
                 strength |-> TrendStrength(fit.rSquared)],
             hasSignificantTrend |-> HasSignificantTrend(fit.slope, fit.rSquared)]

-----------------------------------------------------------------------------
(* Inputs of the trend analysis *)

MaxTrendLen == 2

\* Saturday 22:00, Saturday 23:00 and Sunday 0:00 of the second week: three
\* hours, two days, two weeks.
TrendTimes == {166, 167, 168}

TrendValues == {R(0), R(1), R(3)}

TrendData(len) ==
    { Arr([i \in 1..len |-> Reading(i, g[i][1], "B-101", "D-1", g[i][2], g[i][2], "")]) :
      g \in [1..len -> TrendTimes \X TrendValues] }

\* One reading a day from Monday on, with the emissions given.
DailySeries(values) ==
    Arr([i \in 1..Len(values) |->
            Reading(i, (8 + i) * HoursPerDay, "B-101", "D-1", values[i], R(1), "")])

\* The series of section 8 of the specification (10, 20, 30) and its
\* reverse, series that fit a line moderately and weakly, a slope of 0.1 and
\* one just above, a series with sub-cent values and a constant series.
TrendExamples ==
    { DailySeries(<<R(10), R(20), R(30)>>),
      DailySeries(<<R(30), R(20), R(10)>>),
      DailySeries(<<R(1), R(0), R(3)>>),
      DailySeries(<<R(3), R(0), R(1)>>),
      DailySeries(<<R(1), R(0), R(2)>>),
      DailySeries(<<R(0), Rat(1, 10), Rat(1, 5)>>),
      DailySeries(<<R(0), Rat(11, 100), Rat(11, 50)>>),
      DailySeries(<<Rat(1, 250), R(1), R(2), Rat(1499, 500)>>),
      DailySeries(<<R(5), R(5), R(5), R(5)>>) }

TrendInputs ==
    UNION { TrendData(len) : len \in 0..MaxTrendLen } \cup TrendExamples \cup {Null}

Intervals == {"undefined", "hour", "day", "week", "month"}

InitTrend ==
    /\ data \in TrendInputs
    /\ call = NoCall
    /\ ret = <<>>
    /\ tzOffset = 0

IdentifyTrends ==
    \E interval \in Intervals :
        /\ call' = [op |-> "identifyTrends", interval |-> interval]
        /\ ret' = identifyTrends(data, interval)
        /\ UNCHANGED <<data, tzOffset>>

NextTrend == IdentifyTrends

SpecTrend == InitTrend /\ [][NextTrend]_vars

-----------------------------------------------------------------------------
(* Properties of identifyTrends *)

TrendCallReturned ==
    call.op = "identifyTrends" /\ ~data.isNull /\ Len(data.items) > 0

Averages(trends) == [i \in 1..Len(trends) |-> trends[i].averageEmissions]

\* The ordinary least-squares fit of y against 0, 1, 2, ... by the sums of
\* products: slope = (n Sxy - Sx Sy) / (n Sxx - Sx^2), and R^2 the square of
\* the correlation, (n Sxy - Sx Sy)^2 / ((n Sxx - Sx^2) (n Syy - Sy^2)); both
\* are 0 where the quotient has no value.
OlsSums(y) ==
    LET n == Len(y)
        x == [i \in 1..n |-> R(i - 1)]
        sx == RSumTo(x, n)
        sy == RSumTo(y, n)
        sxy == RSumTo([i \in 1..n |-> RMul(x[i], y[i])], n)
        sxx == RSumTo([i \in 1..n |-> RMul(x[i], x[i])], n)
        syy == RSumTo([i \in 1..n |-> RMul(y[i], y[i])], n)
    IN [cov |-> RSub(RMul(R(n), sxy), RMul(sx, sy)),
        varx |-> RSub(RMul(R(n), sxx), RMul(sx, sx)),
        vary |-> RSub(RMul(R(n), syy), RMul(sy, sy))]

OlsSlope(y) ==
    LET s == OlsSums(y) IN IF s.varx.n = 0 THEN R(0) ELSE RDiv(s.cov, s.varx)

OlsRSquared(y) ==
    LET s == OlsSums(y)
    IN IF s.varx.n = 0 \/ s.vary.n = 0 THEN R(0)
       ELSE RDiv(RMul(s.cov, s.cov), RMul(s.varx, s.vary))

\* C4: on a non-empty input the classification follows the fitted line:
\* the direction is the sign of its slope, the strength the class of its
\* R^2 (> 0.7 strong, > 0.3 moderate, else weak), hasSignificantTrend is
\* |slope| > 0.1 and R^2 > 0.3; hence a significant trend is neither weak
\* nor stable.
C4_ClassificationFollowsFit ==
    TrendCallReturned =>
        LET slope == OlsSlope(Averages(ret.trends))
            r2 == OlsRSquared(Averages(ret.trends))
            a == ret.analysis
        IN /\ (a.direction = "increasing") = (slope.n > 0)
           /\ (a.direction = "decreasing") = (slope.n < 0)
           /\ (a.direction = "stable") = (slope.n = 0)
           /\ (a.strength = "strong") = RGt(r2, Rat(7, 10))
           /\ (a.strength = "moderate") = (RGt(r2, Rat(3, 10)) /\ RLe(r2, Rat(7, 10)))
           /\ (a.strength = "weak") = RLe(r2, Rat(3, 10))
           /\ ret.hasSignificantTrend =
                 (RGt(RAbs(slope), Rat(1, 10)) /\ RGt(r2, Rat(3, 10)))
           /\ ret.hasSignificantTrend =>
                 (a.strength # "weak" /\ a.direction # "stable")

\* A significant, moderate, decreasing trend (3, 0, 1) has been classified.
C4_Witness ==
    /\ call.op = "identifyTrends"
    /\ data = DailySeries(<<R(3), R(0), R(1)>>)
    /\ ret.hasSignificantTrend
    /\ ret.analysis.strength = "moderate"
    /\ ret.analysis.direction = "decreasing"

IsProgression(y, a, d) == \A i \in 1..Len(y) : y[i] = RAdd(a, RMul(R(i - 1), d))

C6_ConstantAverages ==
    TrendCallReturned =>
        LET y == Averages(ret.trends)
        IN IsConstant(y) =>
              /\ ret.analysis.slope = R(0)
              /\ ret.analysis.rSquared = R(0)
              /\ IsFinite(ret.analysis.slope)
              /\ IsFinite(ret.analysis.rSquared)
              /\ IsFinite(ret.analysis.yIntercept)
              /\ ret.analysis.direction = "stable"
              /\ ret.analysis.strength = "weak"
              /\ ~ret.hasSignificantTrend
              /\ \A i \in 1..Len(ret.trends) :
                    IsFinite(ret.trends[i].predicted) /\ IsFinite(ret.trends[i].deviation)

\* Four buckets of average 5, and a single bucket, have been analysed.
C6_Witness ==
    /\ call.op = "identifyTrends"
    /\ \/ Averages(ret.trends) = <<R(5), R(5), R(5), R(5)>>
       \/ (Len(data.items) = 2 /\ Len(ret.trends) = 1)
    /\ ret.analysis.direction = "stable"

-----------------------------------------------------------------------------
(* forecast *)

\* new Date(key) of a day key "YYYY-MM-DD": midnight UTC of that day, as an
\* hour of local time (tz hours east of UTC).
ParseDayKey(day, tz) == day * HoursPerDay + tz

\* The label of the forecast point i (0, 1, ...): for days, the local date
\* of the parsed last key moved on by i + 1 days; for weeks the key
\* "Week of ..." is not in the format Date.parse must accept, and the engine
\* either rejects it (every getter returns NaN) or reads the date in it
\* (lenient); any other interval is labelled by its number.
ForecastLabel(interval, lastKey, i, tz, lenient) ==
    CASE interval = "day" ->
           [kind |-> "day", at |-> DayOf(ParseDayKey(lastKey.at, tz)) + i + 1]
      [] interval = "week" ->
           IF lenient
           THEN [kind |-> "Week of", at |-> lastKey.at + (i + 1) * DaysPerWeek]
           ELSE [kind |-> "Week of NaN-NaN-NaN", at |-> 0]
      [] OTHER -> [kind |-> "Future " \o interval, at |-> i + 1]

\* currentForecast + slope without the clamp
ForecastStepUnclamped(currentForecast, slope) == RAdd(currentForecast, slope)

\* currentForecast = Math.max(0, currentForecast + trends.analysis.slope)
ForecastStep(currentForecast, slope) == RMax(R(0), RAdd(currentForecast, slope))

\* The value of currentForecast after k passes of the loop.
RECURSIVE CurrentForecast(_, _, _)
CurrentForecast(lastValue, slope, k) ==
    IF k = 0 THEN lastValue
    ELSE ForecastStep(CurrentForecast(lastValue, slope, k - 1), slope)

\* The second threshold on the number of readings read as >= 20.
ConfidenceFromTwenty(rSquared, n) ==
    IF RGt(rSquared, Rat(7, 10)) /\ n > 30 THEN "high"
    ELSE IF RGt(rSquared, Rat(2, 5)) /\ n >= 20 THEN "medium" ELSE "low"

\* rSquared > 0.7 && length > 30: high; rSquared > 0.4 && length > 20: medium
Confidence(rSquared, n) ==
    IF RGt(rSquared, Rat(7, 10)) /\ n > 30 THEN "high"
    ELSE IF RGt(rSquared, Rat(2, 5)) /\ n > 20 THEN "medium" ELSE "low"

DefaultPeriods == 7

\* An omitted periods argument.
NoPeriods == -1

\* The body of forecast from the fitted trends on: the loop over the periods,
\* the confidence and the returned object.
ForecastFrom(trends, n, periods, interval, tz, lenient) ==
    LET last == trends.trends[Len(trends.trends)]
        slope == trends.analysis.slope
        rSquared == trends.analysis.rSquared
        confidence == Confidence(rSquared, n)
    IN [historical |-> trends.trends,
        forecast |->
           [k \in 1..periods |->
               [interval |-> ForecastLabel(interval, last.interval, k - 1, tz, lenient),
                forecast |-> Fixed(CurrentForecast(last.averageEmissions, slope, k), 2)]],
        confidence |-> confidence,
        slope |-> slope,
        message |-> [confidence |-> confidence, dataPoints |-> n,
                     rSquared |-> Fixed(rSquared, 2)]]

forecast(d, periodsArg, intervalArg, tz, lenient) ==
    IF d.isNull \/ Len(d.items) < 10
    THEN [forecast |-> <<>>, confidence |-> "low",
          message |-> [insufficient |-> TRUE]]
    ELSE LET periods == IF periodsArg = NoPeriods THEN DefaultPeriods ELSE periodsArg
             interval == IF intervalArg = "undefined" THEN DefaultInterval ELSE intervalArg
         IN ForecastFrom(identifyTrends(d, interval), Len(d.items), periods, interval,
                         tz, lenient)

-----------------------------------------------------------------------------
(* Inputs of the forecast *)

MaxPeriods == 3
MaxPatternLen == 3

\* n readings dealt in turn to the days of a pattern, from a Saturday on;
\* every reading of a day carries the day's value.
Replicate(pattern, n) ==
    Arr([i \in 1..n |->
            LET k == ((i - 1) % Len(pattern)) + 1
            IN Reading(i, (12 + k) * HoursPerDay, "B-101", "D-1", pattern[k], R(1), "")])

PatternValues == {R(0), Rat(1, 100), R(1)}

Patterns == UNION { [1..len -> PatternValues] : len \in 1..MaxPatternLen }

\* Patterns whose fit is exact, strong, moderate, weak and flat, and one of
\* six days whose slope 1/7 has no finite decimal expansion.
ClassPatterns ==
    { <<R(1), R(2), R(3)>>, <<R(0), R(0), R(1)>>, <<R(1), R(0), R(3)>>,
      <<R(1), R(0), R(2)>>, <<R(1), R(1), R(1)>>,
      <<R(0), R(0), R(0), R(0), R(0), R(1)>> }

\* The numbers of readings on both sides of the thresholds 10, 20 and 30.
ForecastSizes == {9, 10, 20, 21, 30, 31}

ForecastInputs ==
    { Replicate(p, 10) : p \in Patterns }
        \cup { Replicate(p, n) : p \in ClassPatterns, n \in ForecastSizes }
        \cup {Null}

ForecastArgs ==
    { <<p, "day">> : p \in 0..MaxPeriods }
        \cup { <<NoPeriods, "undefined">>, <<MaxPeriods, "hour">>,
               <<MaxPeriods, "week">>, <<MaxPeriods, "month">> }

TimeZones == {-5, 0, 1}

InitForecast ==
    /\ data \in ForecastInputs
    /\ call = NoCall
    /\ ret = <<>>
    /\ tzOffset \in TimeZones

Forecast ==
    \E args \in ForecastArgs, lenient \in BOOLEAN :
        /\ args[2] # "week" => ~lenient
        /\ call' = [op |-> "forecast", periods |-> args[1], interval |-> args[2]]
        /\ ret' = forecast(data, args[1], args[2], tzOffset, lenient)
        /\ UNCHANGED <<data, tzOffset>>

NextForecast == Forecast

SpecForecast == InitForecast /\ [][NextForecast]_vars

-----------------------------------------------------------------------------
(* Properties of forecast *)

ForecastCallReturned == call.op = "forecast" /\ ~data.isNull /\ Len(data.items) >= 10

PeriodsOf(c) == IF c.periods = NoPeriods THEN 7 ELSE c.periods

LastAverage(historical) == historical[Len(historical)].averageEmissions

ForecastValues(f) == [k \in 1..Len(f) |-> f[k].forecast]

\* f[1] = max(0, last + slope) and f[k] = max(0, f[k-1] + slope)
FollowsRecurrence(f, last, slope) ==
    \A k \in 1..Len(f) :
        f[k] = RMax(R(0), RAdd(IF k = 1 THEN last ELSE f[k - 1], slope))

\* c[0] = last, c[k] = max(0, c[k-1] + slope)
RECURSIVE Extrapolated(_, _, _)
Extrapolated(last, slope, k) ==
    IF k = 0 THEN last ELSE RMax(R(0), RAdd(Extrapolated(last, slope, k - 1), slope))

NonNegative(f) == \A k \in 1..Len(f) : RLe(R(0), f[k])

MonotoneAlong(f, slope) ==
    \A k \in 1..(Len(f) - 1) :
        /\ RLe(R(0), slope) => RLe(f[k], f[k + 1])
        /\ RLe(slope, R(0)) => RLe(f[k + 1], f[k])

ZeroAbsorbs(f, slope) ==
    RLe(slope, R(0)) =>
        \A k \in 1..Len(f) : f[k] = R(0) => \A j \in k..Len(f) : f[j] = R(0)

\* C7 as stated: over at least 10 readings the N returned forecast values
\* themselves satisfy f_1 = max(0, last + slope), f_k = max(0, f_(k-1) + slope),
\* with slope the slope of the regression (as fitted, or as returned).
C7_ReturnedValuesFollowRecurrence ==
    ForecastCallReturned =>
        /\ Len(ret.forecast) = PeriodsOf(call)
        /\ \/ FollowsRecurrence(ForecastValues(ret.forecast),
                                 LastAverage(ret.historical), ret.slope)
           \/ FollowsRecurrence(ForecastValues(ret.forecast),
                                 LastAverage(ret.historical),
                                 OlsSlope(Averages(ret.historical)))

\* C7: over at least 10 readings forecast returns exactly N points; the k-th
\* value is c_k rounded to 2 decimals, where c_0 is the last bucket's average,
\* c_k = max(0, c_(k-1) + slope) and slope is the regression slope rounded to
\* 4 decimals, which is the slope returned; every value is >= 0, the values
\* are monotone in the direction of the slope, and after a 0 with slope <= 0
\* all values are 0.
C7_RoundedExtrapolation ==
    ForecastCallReturned =>
        LET f == ForecastValues(ret.forecast)
            last == LastAverage(ret.historical)
        IN /\ Len(ret.forecast) = PeriodsOf(call)
           /\ ret.slope = Fixed(OlsSlope(Averages(ret.historical)), 4)
           /\ \A k \in 1..Len(f) : f[k] = Fixed(Extrapolated(last, ret.slope, k), 2)
           /\ NonNegative(f)
           /\ MonotoneAlong(f, ret.slope)
           /\ ZeroAbsorbs(f, ret.slope)

\* Three points were forecast down a slope of -1/2 from a last average of 1
\* and were clamped at 0 from the second on.
C7_Witness ==
    /\ call.op = "forecast"
    /\ call.periods = 3
    /\ data = Replicate(<<R(1), R(1), R(0)>>, 10)
    /\ ret.slope = Rat(-1, 2)
    /\ ForecastValues(ret.forecast) = <<R(0), R(0), R(0)>>

\* C8: below 10 readings (or without data) the forecast is empty and the
\* confidence low; from 10 readings on the confidence is high iff R^2 > 0.7
\* and n > 30, medium iff it is not high and R^2 > 0.4 and n > 20, and low
\* otherwise, R^2 being the R^2 of the fit as identifyTrends reports it
\* (4 decimals).
C8_ConfidenceByCountAndFit ==
    call.op = "forecast" =>
        LET n == IF data.isNull THEN 0 ELSE Len(data.items)
        IN IF n < 10
           THEN ret.forecast = <<>> /\ ret.confidence = "low"
           ELSE LET r2 == Fixed(OlsRSquared(Averages(ret.historical)), 4)
                    high == RGt(r2, Rat(7, 10)) /\ n > 30
                    medium == ~high /\ RGt(r2, Rat(2, 5)) /\ n > 20
                IN /\ (ret.confidence = "high") = high
                   /\ (ret.confidence = "medium") = medium
                   /\ (ret.confidence = "low") = (~high /\ ~medium)
                   /\ ret.confidence = "high" => n > 30
                   /\ ret.confidence = "medium" => n > 20

\* A fit with R^2 = 3/4 over exactly 30 readings was rated medium, not high.
C8_Witness ==
    /\ call.op = "forecast"
    /\ data = Replicate(<<R(0), R(0), R(1)>>, 30)
    /\ ret.confidence = "medium"

\* The day of the last reading: the last bucket of the days.
LastDay == DayOf(data.items[CHOOSE i \in 1..Len(data.items) :
                     \A j \in 1..Len(data.items) :
                         data.items[j].timestamp <= data.items[i].timestamp].timestamp)

\* The forecast was asked for by days.
ForecastByDay == ForecastCallReturned /\ call.interval \in {"day", "undefined"}

\* C26 as stated: the k-th label of a forecast by days is the day k days
\* after the last bucket's, in every time zone.
C26_DayLabelsFollowLastBucket ==
    ForecastByDay =>
        \A k \in 1..Len(ret.forecast) :
            ret.forecast[k].interval = [kind |-> "day", at |-> LastDay + k]

\* The same in the time zones that are not behind UTC.
DayLabelsFollowLastBucketEastOfUTC ==
    (ForecastByDay /\ tzOffset >= 0) =>
        \A k \in 1..Len(ret.forecast) :
            ret.forecast[k].interval = [kind |-> "day", at |-> LastDay + k]

-----------------------------------------------------------------------------
(* generateRecommendations *)

\* A recommendation without a target; its text has no variable part.
GeneralRec(text) ==
    [type |-> "general", priority |-> "medium", text |-> [template |-> text]]

CollectMoreData ==
    GeneralRec("Collect more data to enable comprehensive analysis and more specific recommendations.")

EnergyAudit ==
    GeneralRec("Consider implementing a regular energy audit program to identify further efficiency opportunities.")

Roadmap ==
    GeneralRec("Develop a carbon reduction roadmap with specific targets and timelines for each building.")

\* The guard with 9 readings taken for enough.
InsufficientDataBelowNine(d) == d.isNull \/ Len(d.items) < 9

\* !this.data || this.data.length < 10
InsufficientData(d) == d.isNull \/ Len(d.items) < 10

\* The recommendation for the worst device of the building of highest
\* intensity, if it exceeds 1.3 times the building's intensity.
DeviceRecs(highestIntensity) ==
    IF Len(highestIntensity.devices) > 0
    THEN LET worstDevice == highestIntensity.devices[1]
         IN IF RGt(worstDevice.intensity, RMul(highestIntensity.intensity, Rat(13, 10)))
            THEN << [type |-> "device", priority |-> "high",
                     target |-> worstDevice.type \o " in " \o highestIntensity.name,
                     text |-> [template |-> "The {type} in {name} has particularly high carbon intensity. Consider upgrading or optimizing this system.",
                               type |-> worstDevice.type,
                               name |-> highestIntensity.name]] >>
            ELSE <<>>
    ELSE <<>>

\* The recommendations for the building of highest intensity, if it exceeds
\* 1.5 times the average.
IntensityRecs(intensityData) ==
    IF Len(intensityData.buildings) > 0
    THEN LET highestIntensity == intensityData.buildings[1]
         IN IF RGt(highestIntensity.intensity, RMul(intensityData.average, Rat(3, 2)))
            THEN << [type |-> "efficiency", priority |-> "high",
                     target |-> highestIntensity.name,
                     text |-> [template |-> "{name} has a carbon intensity {ratio}x higher than average. Consider energy efficiency improvements.",
                               name |-> highestIntensity.name,
                               ratio |-> Fixed(Div(highestIntensity.intensity,
                                                   intensityData.average), 1)]] >>
                 \o DeviceRecs(highestIntensity)
            ELSE <<>>
    ELSE <<>>

TrendRecs(trends) ==
    IF trends.hasSignificantTrend
    THEN IF RGt(trends.analysis.slope, R(0))
         THEN << [type |-> "trend", priority |-> "high",
                  text |-> [template |-> "Carbon emissions are {strength} increasing over time. Review recent operational changes and consider implementing additional reduction measures.",
                            strength |-> trends.analysis.strength]] >>
         ELSE << [type |-> "trend", priority |-> "low",
                  text |-> [template |-> "Carbon emissions are {strength} decreasing over time. Current reduction measures appear to be effective.",
                            strength |-> trends.analysis.strength]] >>
    ELSE <<>>

\* buildingAnomalies[anomaly.buildingId], created on first use, then .push
AddToBuildingAnomalies(buildingAnomalies, anomaly) ==
    LET created ==
            IF \E i \in 1..Len(buildingAnomalies) :
                  buildingAnomalies[i].buildingId = anomaly.buildingId
            THEN buildingAnomalies
            ELSE Append(buildingAnomalies,
                        [buildingId |-> anomaly.buildingId, list |-> <<>>])
        at == CHOOSE i \in 1..Len(created) : created[i].buildingId = anomaly.buildingId
    IN [created EXCEPT ![at].list = Append(@, anomaly)]

\* anomalies.forEach(...) over the first k anomalies; the entries in
\* insertion order (the ids are no array indices).
RECURSIVE GroupAnomalies(_, _)
GroupAnomalies(anomalies, k) ==
    IF k = 0 THEN <<>>
    ELSE AddToBuildingAnomalies(GroupAnomalies(anomalies, k - 1), anomalies[k])

\* buildingAnomaliesList[0].metadata?.buildingName || buildingId
AnomalyBuildingName(anomaly, buildingId) ==
    IF "metadata" \in DOMAIN anomaly
    THEN OrElse(anomaly.metadata.buildingName, buildingId)
    ELSE buildingId

AnomalyRec(entry) ==
    LET buildingName == AnomalyBuildingName(entry.list[1], entry.buildingId)
    IN [type |-> "anomaly", priority |-> "medium", target |-> buildingName,
        text |-> [template |-> "{name} shows {count} unusual readings. Consider investigating for potential equipment malfunctions or operational issues.",
                  name |-> buildingName, count |-> Len(entry.list)]]

RECURSIVE AnomalyRecsOf(_, _)
AnomalyRecsOf(entries, k) ==
    IF k = 0 THEN <<>>
    ELSE AnomalyRecsOf(entries, k - 1)
            \o (IF Len(entries[k].list) > 2 THEN <<AnomalyRec(entries[k])>> ELSE <<>>)

AnomalyRecs(anomalies) ==
    IF Len(anomalies) > 0
    THEN LET buildingAnomalies == GroupAnomalies(anomalies, Len(anomalies))
         IN AnomalyRecsOf(buildingAnomalies, Len(buildingAnomalies))
    ELSE <<>>

\* The two generic recommendations appended when there is none yet.
GeneralRecsWhenEmpty(recommendations) ==
    IF Len(recommendations) < 1
    THEN recommendations \o <<EnergyAudit, Roadmap>>
    ELSE recommendations

\* if (recommendations.length < 2) push the two generic recommendations
GeneralRecs(recommendations) ==
    IF Len(recommendations) < 2
    THEN recommendations \o <<EnergyAudit, Roadmap>>
    ELSE recommendations

\* The trend rule run before the intensity rule.
RuleRecsTrendFirst(intensityData, trends, anomalies) ==
    TrendRecs(trends) \o IntensityRecs(intensityData) \o AnomalyRecs(anomalies)

\* The recommendations of the three rules, in the order of the rules.
RuleRecs(intensityData, trends, anomalies) ==
    IntensityRecs(intensityData) \o TrendRecs(trends) \o AnomalyRecs(anomalies)

generateRecommendations(d) ==
    IF InsufficientData(d) THEN <<CollectMoreData>>
    ELSE GeneralRecs(RuleRecs(calculateCarbonIntensity(d), identifyTrends(d, "day"),
                              detectAnomalies(d, Undefined)))

-----------------------------------------------------------------------------
(* Inputs of the recommendations *)

MaxBlockLen == 3

\* What a reading of a block is: its building, device and emissions.  The
\* building B-102 carries a display name, B-101 none.
BlockChoices ==
    {<<"B-101", "D-1">>, <<"B-102", "D-1">>, <<"B-102", "D-2">>} \X {R(1), R(7)}

BuildingNameOf(b) == IF b = "B-102" THEN "Annex" ELSE ""

Blocks == UNION { [1..len -> BlockChoices] : len \in 1..MaxBlockLen }

BlockRepeats == {3, 4}

\* A block of readings repeated; the reading at position k of the block is
\* taken on the k-th day and uses 1 kWh.
BlockData(block, reps) ==
    Arr([i \in 1..(Len(block) * reps) |->
            LET k == ((i - 1) % Len(block)) + 1
            IN Reading(i, (8 + k) * HoursPerDay, block[k][1][1], block[k][1][2],
                       block[k][2], R(1), BuildingNameOf(block[k][1][1]))])

\* count equal readings
Run(count, day, b, dev, em, en) ==
    [i \in 1..count |-> Reading(0, day * HoursPerDay, b, dev, em, en, BuildingNameOf(b))]

Renumbered(s) == Arr([i \in 1..Len(s) |-> [s[i] EXCEPT !.id = i]])

\* Readings that make single rules fire: three outliers of one building
\* among 16 readings, of the same intensity as the rest (anomaly rule only),
\* of a higher intensity (intensity and anomaly rule) and on a later day
\* (all three rules); a building whose one device is far above the other;
\* 10 and 9 equal readings; 9 readings that differ by building and day; a
\* building whose intensity 13/2 is 1.5 times the average 13/3.
RecExamples ==
    { Renumbered(Run(13, 9, "B-101", "D-1", R(1), R(1))
                    \o Run(3, 9, "B-102", "D-1", R(100), R(100))),
      Renumbered(Run(13, 9, "B-101", "D-1", R(1), R(1))
                    \o Run(3, 9, "B-102", "D-1", R(100), R(1))),
      Renumbered(Run(13, 9, "B-101", "D-1", R(1), R(1))
                    \o Run(3, 10, "B-102", "D-1", R(100), R(1))),
      Renumbered(Run(10, 9, "B-101", "D-1", R(1), R(1))
                    \o Run(2, 9, "B-102", "D-1", R(20), R(1))
                    \o Run(2, 9, "B-102", "D-2", R(1), R(1))),
      Renumbered(Run(10, 9, "B-101", "D-1", R(1), R(1))),
      Renumbered(Run(9, 9, "B-101", "D-1", R(1), R(1))),
      Renumbered(Run(6, 9, "B-101", "D-1", R(1), R(1))
                    \o Run(3, 10, "B-102", "D-1", R(100), R(1))),
      Renumbered(Run(6, 9, "B-101", "D-1", R(0), R(1))
                    \o Run(6, 9, "B-102", "D-1", R(13), R(2))) }

RecInputs ==
    { BlockData(block, reps) : block \in Blocks, reps \in BlockRepeats }
        \cup RecExamples \cup {Arr(<<>>), Null}

InitRec ==
    /\ data \in RecInputs
    /\ call = NoCall
    /\ ret = <<>>
    /\ tzOffset = 0

GenerateRecommendations ==
    /\ call' = [op |-> "generateRecommendations"]
    /\ ret' = generateRecommendations(data)
    /\ UNCHANGED <<data, tzOffset>>

NextRec == GenerateRecommendations

SpecRec == InitRec /\ [][NextRec]_vars

-----------------------------------------------------------------------------
(* Properties of generateRecommendations *)

RecCallReturned == call.op = "generateRecommendations"

ReadingCount == IF data.isNull THEN 0 ELSE Len(data.items)

TypesOf(recs) == [i \in 1..Len(recs) |-> recs[i].type]

IsGeneric(rec) == rec.type = "general"

\* The number of recommendations that are not generic.
RuleCount(recs) == Cardinality({i \in 1..Len(recs) : ~IsGeneric(recs[i])})

\* C9: with fewer than 10 readings (empty and null data included) exactly
\* one recommendation is returned, of type general, and none of type
\* efficiency, device, trend or anomaly.
C9_OneGeneralBelowTen ==
    (RecCallReturned /\ ReadingCount < 10) =>
        /\ Len(ret) = 1
        /\ ret[1].type = "general"
        /\ \A i \in 1..Len(ret) :
              ret[i].type \notin {"efficiency", "device", "trend", "anomaly"}

\* Nine readings whose building of higher emissions and later day would
\* satisfy the intensity and the trend rule were answered by the one
\* request for more data.
C9_Witness ==
    /\ RecCallReturned
    /\ ReadingCount = 9
    /\ \E i, j \in 1..ReadingCount :
          /\ data.items[i].buildingId # data.items[j].buildingId
          /\ data.items[i].timestamp < data.items[j].timestamp
          /\ RLt(data.items[i].carbonEmissions, data.items[j].carbonEmissions)
    /\ ret = <<CollectMoreData>>

\* C10: with at least 10 readings the audit and the roadmap recommendation
\* are appended iff the three rules produced fewer than 2 recommendations;
\* the result has at least 2 entries, and the generic entries are either
\* exactly these two, as the last two elements, or absent.
C10_FallbackIffFewerThanTwo ==
    (RecCallReturned /\ ReadingCount >= 10) =>
        LET generic == {i \in 1..Len(ret) : IsGeneric(ret[i])}
        IN /\ Len(ret) >= 2
           /\ (generic # {}) = (RuleCount(ret) < 2)
           /\ generic # {} =>
                 /\ generic = {Len(ret) - 1, Len(ret)}
                 /\ ret[Len(ret) - 1] = EnergyAudit
                 /\ ret[Len(ret)] = Roadmap

\* One rule alone fired (three anomalies in one building) and the two
\* generic recommendations follow its entry.
C10_Witness ==
    /\ RecCallReturned
    /\ ReadingCount >= 10
    /\ TypesOf(ret) = <<"anomaly", "general", "general">>

RuleRank(type) ==
    CASE type = "efficiency" -> 1 [] type = "device" -> 2 [] type = "trend" -> 3
      [] type = "anomaly" -> 4 [] type = "general" -> 5

OfType(recs, type) == {i \in 1..Len(recs) : recs[i].type = type}

\* C11: with at least 10 readings the entries are in rule order: at most one
\* efficiency, then at most one device, then at most one trend entry, then
\* the anomaly entries, then the general ones.  The efficiency entry is
\* there iff the reported intensity of the first building exceeds 1.5 times
\* the reported average, the device entry iff moreover the reported
\* intensity of its first device exceeds 1.3 times the building's; the trend
\* entry iff hasSignificantTrend, with priority high when the direction is
\* increasing and low when it is decreasing.
C11_RuleOrder ==
    (RecCallReturned /\ ReadingCount >= 10) =>
        LET intensityData == calculateCarbonIntensity(data)
            trends == identifyTrends(data, "day")
            highest == intensityData.buildings[1]
            outlier == RGt(highest.intensity, RMul(Rat(3, 2), intensityData.average))
            worse == RGt(highest.devices[1].intensity,
                         RMul(Rat(13, 10), highest.intensity))
        IN /\ \A i, j \in 1..Len(ret) :
                 i < j => RuleRank(ret[i].type) <= RuleRank(ret[j].type)
           /\ \A type \in {"efficiency", "device", "trend"} :
                 Cardinality(OfType(ret, type)) <= 1
           /\ (OfType(ret, "efficiency") # {}) = outlier
           /\ (OfType(ret, "device") # {}) = (outlier /\ worse)
           /\ OfType(ret, "device") # {} => OfType(ret, "efficiency") # {}
           /\ (OfType(ret, "trend") # {}) = trends.hasSignificantTrend
           /\ \A i \in OfType(ret, "trend") :
                 /\ (ret[i].priority = "high") = (trends.analysis.direction = "increasing")
                 /\ (ret[i].priority = "low") = (trends.analysis.direction = "decreasing")

\* All three rules fired on one input and their entries came in rule order.
C11_Witness ==
    /\ RecCallReturned
    /\ TypesOf(ret) = <<"efficiency", "trend", "anomaly">>
    /\ ret[2].priority = "high"

\* The name a building is shown by: the buildingName its readings carry,
\* its id when they carry none.
DisplayName(b) ==
    LET of == {i \in 1..Len(data.items) : data.items[i].buildingId = b}
        first == CHOOSE i \in of : \A j \in of : i <= j
    IN OrElse(data.items[first].metadata.buildingName, b)

\* The buildings with more than 2 of the anomalies.
BuildingsOfAnomalies(anomalies) ==
    {b \in {anomalies[i].buildingId : i \in 1..Len(anomalies)} :
        Cardinality({i \in 1..Len(anomalies) : anomalies[i].buildingId = b}) > 2}

\* The anomaly entries are one for every building with more than 2
\* anomalies, of priority medium, each with the target given by Name, and
\* the efficiency entry has the name of the building of highest intensity.
TargetsNamedBy(Name(_)) ==
    (RecCallReturned /\ ReadingCount >= 10) =>
        LET flagged == BuildingsOfAnomalies(detectAnomalies(data, Undefined))
            anomalyRecs == OfType(ret, "anomaly")
        IN /\ Cardinality(anomalyRecs) = Cardinality(flagged)
           /\ {ret[i].target : i \in anomalyRecs} = {Name(b) : b \in flagged}
           /\ \A i \in anomalyRecs : ret[i].priority = "medium"
           /\ \A i \in OfType(ret, "efficiency") :
                 ret[i].target = DisplayName(calculateCarbonIntensity(data).buildings[1].id)

\* C27 as stated: the efficiency and the anomaly entries name their
\* building by its display name, and there is an anomaly entry of priority
\* medium for a building iff it has more than 2 anomalies.
C27_TargetsAreDisplayNames == TargetsNamedBy(DisplayName)

\* The same with the anomaly entries naming their building by its id.
AnomalyTargetsAreIds == TargetsNamedBy(LAMBDA b : b)

-----------------------------------------------------------------------------
(* The calendar.  Hour 0 is the local midnight that begins Sunday,         *)
(* 1 January 2023; a Date is a whole number of local hours.                *)

FirstYear == 2023

IsLeapYear(y) == y % 4 = 0 /\ (y % 100 # 0 \/ y % 400 = 0)

DaysInYear(y) == IF IsLeapYear(y) THEN 366 ELSE 365

\* new Date(year, month, 0).getDate(), month counted from 1
DaysInMonth(y, m) ==
    CASE m = 2 -> IF IsLeapYear(y) THEN 29 ELSE 28
      [] m \in {4, 6, 9, 11} -> 30
      [] OTHER -> 31

\* The day number of 1 January of year y.
RECURSIVE YearStart(_)
YearStart(y) ==
    IF y = FirstYear THEN 0
    ELSE IF y > FirstYear THEN YearStart(y - 1) + DaysInYear(y - 1)
    ELSE YearStart(y + 1) - DaysInYear(y)

\* The day number of the 1st of month m (from 1) of year y; a month past
\* December runs over into the next year, as in new Date(year, 12, 1).
RECURSIVE MonthStart(_, _)
MonthStart(y, m) ==
    IF m > 12 THEN MonthStart(y + 1, m - 12)
    ELSE IF m = 1 THEN YearStart(y)
    ELSE MonthStart(y, m - 1) + DaysInMonth(y, m - 1)

\* getFullYear(), getMonth() + 1 and getDate() of a day number.
DateOf(day) ==
    LET early == FirstYear + day \div DaysInYear(FirstYear + 1)
        late == FirstYear + day \div DaysInYear(FirstYear)
        y == CHOOSE yy \in (IF early < late THEN early..late ELSE late..early) :
                 YearStart(yy) <= day /\ day < YearStart(yy + 1)
        m == CHOOSE mm \in 1..12 : MonthStart(y, mm) <= day /\ day < MonthStart(y, mm + 1)
    IN [year |-> y, month |-> m, date |-> day - MonthStart(y, m) + 1]

\* date.toISOString().split('T')[0]: the date in UTC of a local hour, the
\* process being tz hours east of UTC.
IsoDate(hour, tz) == [kind |-> "day", at |-> DayOf(hour - tz)]

\* setHours(0, 0, 0, 0)
StartOfDay(hour) == DayOf(hour) * HoursPerDay

\* setDate(getDate() + n)
AddDays(hour, n) == hour + n * HoursPerDay

DayNames ==
    <<"Sunday", "Monday", "Tuesday", "Wednesday", "Thursday", "Friday", "Saturday">>

-----------------------------------------------------------------------------
(* ReportGenerator *)

\* The window test with the end of the window included.
InWindowClosed(item, start, end) == item.timestamp >= start /\ item.timestamp <= end

\* itemDate >= reportDate && itemDate < endDate
InWindow(item, start, end) == item.timestamp >= start /\ item.timestamp < end

\* this.carbonData.filter(...) over the first k readings
RECURSIVE FilterWindow(_, _, _, _)
FilterWindow(items, k, start, end) ==
    IF k = 0 THEN <<>>
    ELSE FilterWindow(items, k - 1, start, end)
            \o (IF InWindow(items[k], start, end) THEN <<items[k]>> ELSE <<>>)

\* The static table of building names.
BuildingNames(id) ==
    CASE id = "B-101" -> "City Hall"
      [] id = "B-102" -> "Community Center"
      [] id = "B-103" -> "Public Library"
      [] id = "B-104" -> "Police Station"
      [] id = "B-105" -> "Fire Station"
      [] OTHER -> ""

\* building.devices[item.deviceId], created on first use, then += the reading
Report_AddToDevices(devices, item) ==
    LET created ==
            IF HasId(devices, item.deviceId) THEN devices
            ELSE Append(devices, [id |-> item.deviceId,
                                  type |-> OrElse(item.metadata.deviceType, "unknown"),
                                  totalEmissions |-> R(0), totalEnergy |-> R(0),
                                  readingCount |-> 0])
        at == CHOOSE i \in 1..Len(created) : created[i].id = item.deviceId
    IN [created EXCEPT
          ![at].totalEmissions = RAdd(@, item.carbonEmissions),
          ![at].totalEnergy = RAdd(@, item.energyConsumption),
          ![at].readingCount = @ + 1]

\* buildings[item.buildingId], created on first use with the name of the
\* reading that creates it, then += the reading
Report_AddToBuildings(buildings, item) ==
    LET created ==
            IF HasId(buildings, item.buildingId) THEN buildings
            ELSE Append(buildings,
                        [id |-> item.buildingId,
                         name |-> OrElse(item.metadata.buildingName,
                                         OrElse(BuildingNames(item.buildingId),
                                                item.buildingId)),
                         totalEmissions |-> R(0), totalEnergy |-> R(0),
                         readingCount |-> 0, devices |-> <<>>])
        at == CHOOSE i \in 1..Len(created) : created[i].id = item.buildingId
    IN [created EXCEPT
          ![at].totalEmissions = RAdd(@, item.carbonEmissions),
          ![at].totalEnergy = RAdd(@, item.energyConsumption),
          ![at].readingCount = @ + 1,
          ![at].devices = Report_AddToDevices(@, item)]

RECURSIVE Report_GroupLoop(_, _)
Report_GroupLoop(items, k) ==
    IF k = 0 THEN <<>> ELSE Report_AddToBuildings(Report_GroupLoop(items, k - 1), items[k])

\* Array.prototype.sort((a, b) => b.totalEmissions - a.totalEmissions)
InsertByEmissions(sorted, x) ==
    LET pos == Cardinality({i \in 1..Len(sorted) :
                               RLe(x.totalEmissions, sorted[i].totalEmissions)})
    IN SubSeq(sorted, 1, pos) \o <<x>> \o SubSeq(sorted, pos + 1, Len(sorted))

RECURSIVE SortByEmissions(_, _)
SortByEmissions(s, k) ==
    IF k = 0 THEN <<>> ELSE InsertByEmissions(SortByEmissions(s, k - 1), s[k])

\* totalEmissions and totalEnergy to 2 decimals
RoundedTotals(x) ==
    [x EXCEPT !.totalEmissions = Fixed(@, 2), !.totalEnergy = Fixed(@, 2)]

RoundedAll(s) == [i \in 1..Len(s) |-> RoundedTotals(s[i])]

Report_groupByBuilding(items) ==
    LET buildings == Report_GroupLoop(items, Len(items))
        withDevices ==
            [i \in 1..Len(buildings) |->
                [buildings[i] EXCEPT
                    !.devices = SortByEmissions(RoundedAll(@), Len(@))]]
    IN SortByEmissions(RoundedAll(withDevices), Len(withDevices))

\* date.getHours()
HourOf(ts) == ts % HoursPerDay

\* hours[hour], created on first use, then += the reading
AddToHours(hours, item) ==
    LET hour == HourOf(item.timestamp)
        created ==
            IF \E i \in 1..Len(hours) : hours[i].hour = hour THEN hours
            ELSE Append(hours, [hour |-> hour, totalEmissions |-> R(0),
                                totalEnergy |-> R(0), readingCount |-> 0])
        at == CHOOSE i \in 1..Len(created) : created[i].hour = hour
    IN [created EXCEPT
          ![at].totalEmissions = RAdd(@, item.carbonEmissions),
          ![at].totalEnergy = RAdd(@, item.energyConsumption),
          ![at].readingCount = @ + 1]

RECURSIVE HoursLoop(_, _)
HoursLoop(items, k) ==
    IF k = 0 THEN <<>> ELSE AddToHours(HoursLoop(items, k - 1), items[k])

\* Array.prototype.sort((a, b) => a.hour - b.hour)
InsertByHour(sorted, x) ==
    LET pos == Cardinality({i \in 1..Len(sorted) : sorted[i].hour <= x.hour})
    IN SubSeq(sorted, 1, pos) \o <<x>> \o SubSeq(sorted, pos + 1, Len(sorted))

RECURSIVE SortByHour(_, _)
SortByHour(s, k) == IF k = 0 THEN <<>> ELSE InsertByHour(SortByHour(s, k - 1), s[k])

groupByHour(items) ==
    LET hours == HoursLoop(items, Len(items))
    IN SortByHour(RoundedAll(hours), Len(hours))

\* Math.floor((date - startDate) / (24 * 60 * 60 * 1000))
DayIndex(ts, startDate) == (ts - startDate) \div HoursPerDay

\* The days of the period, each with totals 0.
EmptyDays(startDate, days, tz) ==
    [i \in 1..days |->
        LET date == AddDays(startDate, i - 1)
        IN [date |-> IsoDate(date, tz), dayOfWeek |-> WeekdayOf(date),
            dayName |-> DayNames[WeekdayOf(date) + 1],
            totalEmissions |-> R(0), totalEnergy |-> R(0), readingCount |-> 0]]

\* data.forEach(...) over the first k readings: a reading whose day index
\* is in the period is added to its day
RECURSIVE DaysLoop(_, _, _, _, _)
DaysLoop(items, k, startDate, days, tz) ==
    IF k = 0 THEN EmptyDays(startDate, days, tz)
    ELSE LET dailyData == DaysLoop(items, k - 1, startDate, days, tz)
             dayIndex == DayIndex(items[k].timestamp, startDate)
         IN IF dayIndex >= 0 /\ dayIndex < days
            THEN [dailyData EXCEPT
                    ![dayIndex + 1].totalEmissions = RAdd(@, items[k].carbonEmissions),
                    ![dayIndex + 1].totalEnergy = RAdd(@, items[k].energyConsumption),
                    ![dayIndex + 1].readingCount = @ + 1]
            ELSE dailyData

groupByDay(items, startDate, days, tz) ==
    RoundedAll(DaysLoop(items, Len(items), startDate, days, tz))

\* The value of a missing peak (null).
NoPeak == [none |-> TRUE]

\* hourlyData.reduce(...) over the first k hours: a later hour replaces the
\* peak only when its emissions are greater
RECURSIVE PeakHourLoop(_, _)
PeakHourLoop(hourlyData, k) ==
    IF k = 0
    THEN [hour |-> hourlyData[1].hour, emissions |-> hourlyData[1].totalEmissions]
    ELSE LET peak == PeakHourLoop(hourlyData, k - 1)
         IN IF RGt(hourlyData[k].totalEmissions, peak.emissions)
            THEN [hour |-> hourlyData[k].hour, emissions |-> hourlyData[k].totalEmissions]
            ELSE peak

findPeakHour(hourlyData) ==
    IF Len(hourlyData) = 0 THEN NoPeak ELSE PeakHourLoop(hourlyData, Len(hourlyData))

RECURSIVE PeakDayLoop(_, _)
PeakDayLoop(dailyData, k) ==
    IF k = 0
    THEN [dayName |-> dailyData[1].dayName, emissions |-> dailyData[1].totalEmissions]
    ELSE LET peak == PeakDayLoop(dailyData, k - 1)
         IN IF RGt(dailyData[k].totalEmissions, peak.emissions)
            THEN [dayName |-> dailyData[k].dayName,
                  emissions |-> dailyData[k].totalEmissions]
            ELSE peak

findPeakDay(dailyData) ==
    IF Len(dailyData) = 0 THEN NoPeak ELSE PeakDayLoop(dailyData, Len(dailyData))

\* Math.ceil(a / b) for a >= 0, b > 0
CeilDiv(a, b) == (a + b - 1) \div b

Min(a, b) == IF a < b THEN a ELSE b
Max(a, b) == IF a > b THEN a ELSE b

\* The weeks of the month that begins at startDate, each with totals 0 and
\* its first and last day of the month.
EmptyWeeks(startDate, tz) ==
    LET first == DateOf(DayOf(startDate))
        startDay == WeekdayOf(startDate)
        daysInMonth == DaysInMonth(first.year, first.month)
        numWeeks == CeilDiv(daysInMonth + startDay, DaysPerWeek)
        monthStart == MonthStart(first.year, first.month)
    IN [w \in 1..numWeeks |->
          LET weekStart == (w - 1) * DaysPerWeek - startDay + 1
              weekEnd == Min(weekStart + 6, daysInMonth)
          IN [week |-> w,
              hasDates |-> weekStart <= daysInMonth,
              startDate |-> IsoDate((monthStart + Max(1, weekStart) - 1) * HoursPerDay, tz),
              endDate |-> IsoDate((monthStart + weekEnd - 1) * HoursPerDay, tz),
              totalEmissions |-> R(0), totalEnergy |-> R(0), readingCount |-> 0]]

\* Math.floor((dayOfMonth + startDay - 1) / 7)
WeekIndex(ts, startDay) == (DateOf(DayOf(ts)).date + startDay - 1) \div DaysPerWeek

RECURSIVE WeeksLoop(_, _, _, _)
WeeksLoop(items, k, startDate, tz) ==
    IF k = 0 THEN EmptyWeeks(startDate, tz)
    ELSE LET weeks == WeeksLoop(items, k - 1, startDate, tz)
             weekIndex == WeekIndex(items[k].timestamp, WeekdayOf(startDate))
         IN IF weekIndex >= 0 /\ weekIndex < Len(weeks)
            THEN [weeks EXCEPT
                    ![weekIndex + 1].totalEmissions = RAdd(@, items[k].carbonEmissions),
                    ![weekIndex + 1].totalEnergy = RAdd(@, items[k].energyConsumption),
                    ![weekIndex + 1].readingCount = @ + 1]
            ELSE weeks

calculateWeeklyTrend(items, startDate, tz) ==
    RoundedAll(SelectSeq(WeeksLoop(items, Len(items), startDate, tz),
                         LAMBDA week : week.hasDates))

-----------------------------------------------------------------------------
(* Text.  A text is a sequence of pieces: the characters that matter to a  *)
(* CSV reader (comma, double quote, line break) each stand alone, and a    *)
(* run of other characters is one piece.                                    *)

Comma == ","
Quote == "\""
LineBreak == "\n"

SpecialCharacters == {Comma, Quote, LineBreak}

\* The pieces of a string.
Text(str) ==
    CASE str = "East, Annex" -> <<"East", Comma, " Annex">>
      [] str = "The \"Lab\"" -> <<"The ", Quote, "Lab", Quote>>
      [] str = "Depot\nNorth" -> <<"Depot", LineBreak, "North">>
      [] str = "" -> <<>>
      [] OTHER -> <<str>>

Digit(k) == <<"0", "1", "2", "3", "4", "5", "6", "7", "8", "9">>[k + 1]

\* The decimal digits of a natural number.
RECURSIVE Digits(_)
Digits(n) == IF n < 10 THEN <<Digit(n)>> ELSE Digits(n \div 10) \o <<Digit(n % 10)>>

\* String(x) of a number with at most 2 decimals: no trailing zeros, no
\* decimal point on a whole number.
NumText(a) ==
    IF a = NaN THEN <<"NaN">>
    ELSE IF ~IsFinite(a) THEN <<"Infinity">>
    ELSE LET hundredths == (Abs(a.n) * 100) \div a.d
             whole == hundredths \div 100
             fraction == hundredths % 100
         IN (IF a.n < 0 THEN <<"-">> ELSE <<>>) \o Digits(whole)
               \o (IF fraction = 0 THEN <<>>
                   ELSE IF fraction % 10 = 0 THEN <<".", Digit(fraction \div 10)>>
                   ELSE <<".", Digit(fraction \div 10), Digit(fraction % 10)>>)

-----------------------------------------------------------------------------
(* ReportGenerator.generateRecommendations *)

Report_GeneralRec(text) == [priority |-> "low", category |-> "general", text |-> <<text>>]

InsufficientDataRec ==
    Report_GeneralRec("Insufficient data to generate meaningful recommendations. Continue collecting data to improve insights.")

MonitoringRec ==
    Report_GeneralRec("Consider implementing a regular energy monitoring program to track consumption patterns and identify inefficiencies.")

EducateStaffRec ==
    Report_GeneralRec("Educate staff about energy conservation practices to reduce overall carbon footprint.")

\* building.devices.forEach(...) over the first k devices
RECURSIVE Report_DeviceRecs(_, _)
Report_DeviceRecs(building, k) ==
    IF k = 0 THEN <<>>
    ELSE LET device == building.devices[k]
         IN Report_DeviceRecs(building, k - 1)
              \o (IF RGt(device.totalEmissions, RMul(building.totalEmissions, Rat(2, 5)))
                  THEN << [priority |-> "medium", category |-> "device",
                           building |-> building.name, device |-> device.type,
                           text |-> Text(device.type) \o <<" in ">> \o Text(building.name)
                                      \o <<" accounts for over 40% of the building's emissions. Consider upgrading or optimizing this system.">>] >>
                  ELSE <<>>)

\* buildings.forEach(...) over the first k buildings
RECURSIVE Report_BuildingRecs(_, _)
Report_BuildingRecs(buildings, k) ==
    IF k = 0 THEN <<>>
    ELSE LET building == buildings[k]
         IN Report_BuildingRecs(buildings, k - 1)
              \o (IF RGt(building.totalEmissions, R(100))
                  THEN << [priority |-> "high", category |-> "building",
                           building |-> building.name,
                           text |-> Text(building.name)
                                      \o <<" has unusually high emissions (">>
                                      \o NumText(building.totalEmissions)
                                      \o <<" kg CO2). Consider an energy audit to identify inefficiencies.">>] >>
                  ELSE <<>>)
              \o Report_DeviceRecs(building, Len(building.devices))

TimingRec(text) == [priority |-> "medium", category |-> "timing", text |-> text]

\* The recommendation that names the peak hour (daily) or the peak day
\* (weekly, the days counted from the first reading of the data).
TimingRecs(items, reportType, tz) ==
    CASE reportType = "daily" ->
           LET peakHour == findPeakHour(groupByHour(items))
           IN IF peakHour # NoPeak
              THEN <<TimingRec(<<"Peak emissions occur at ">> \o Digits(peakHour.hour)
                                 \o <<":00. Consider shifting energy-intensive operations to off-peak hours.">>)>>
              ELSE <<>>
      [] reportType = "weekly" ->
           LET peakDay == findPeakDay(groupByDay(items, items[1].timestamp, DaysPerWeek, tz))
           IN IF peakDay # NoPeak
              THEN <<TimingRec(<<peakDay.dayName>>
                                 \o <<" shows the highest emissions. Review operations on this day to identify reduction opportunities.">>)>>
              ELSE <<>>
      [] OTHER -> <<>>

\* if (recommendations.length < 2) push the two general recommendations
Report_GeneralRecs(recommendations) ==
    IF Len(recommendations) < 2
    THEN recommendations \o <<MonitoringRec, EducateStaffRec>>
    ELSE recommendations

Report_generateRecommendations(items, reportType, tz) ==
    IF Len(items) < 5 THEN <<InsufficientDataRec>>
    ELSE LET buildings == Report_groupByBuilding(items)
         IN Report_GeneralRecs(Report_BuildingRecs(buildings, Len(buildings))
                                  \o TimingRecs(items, reportType, tz))

-----------------------------------------------------------------------------
(* ReportGenerator.generate...Report *)

\* data.reduce((sum, item) => sum + item.carbonEmissions, 0)
TotalEmissions(items) == RSum([i \in 1..Len(items) |-> items[i].carbonEmissions])

\* data.reduce((sum, item) => sum + item.energyConsumption, 0)
TotalEnergy(items) == RSum([i \in 1..Len(items) |-> items[i].energyConsumption])

\* The daily report of the readings of the day, which begins at reportDate.
DailyReportOf(dailyData, reportDate, hourlyData, peakHour, tz) ==
    [reportType |-> "daily",
     date |-> IsoDate(reportDate, tz),
     summary |->
        [totalEmissions |-> Fixed(TotalEmissions(dailyData), 2),
         totalEnergy |-> Fixed(TotalEnergy(dailyData), 2),
         readingCount |-> Len(dailyData),
         peakHour |-> IF peakHour # NoPeak THEN Digits(peakHour.hour) \o <<":00">>
                      ELSE <<"N/A">>,
         peakEmissions |-> IF peakHour # NoPeak THEN Fixed(peakHour.emissions, 2)
                           ELSE R(0)],
     buildings |-> Report_groupByBuilding(dailyData),
     hourly |-> hourlyData,
     recommendations |-> Report_generateRecommendations(dailyData, "daily", tz)]

DailyReportWith(dailyData, reportDate, hourlyData, tz) ==
    DailyReportOf(dailyData, reportDate, hourlyData, findPeakHour(hourlyData), tz)

DailyReportFrom(dailyData, reportDate, tz) ==
    DailyReportWith(dailyData, reportDate, groupByHour(dailyData), tz)

generateDailyReport(d, date, tz) ==
    DailyReportFrom(FilterWindow(d.items, Len(d.items), StartOfDay(date),
                                 AddDays(StartOfDay(date), 1)),
                    StartOfDay(date), tz)

\* The weekly report of the readings of the week, which begins at reportDate.
WeeklyReportOf(weeklyData, reportDate, endDate, dailyData, peakDay, tz) ==
    [reportType |-> "weekly",
     startDate |-> IsoDate(reportDate, tz),
     endDate |-> IsoDate(endDate - 1, tz),
     summary |->
        [totalEmissions |-> Fixed(TotalEmissions(weeklyData), 2),
         totalEnergy |-> Fixed(TotalEnergy(weeklyData), 2),
         readingCount |-> Len(weeklyData),
         peakDay |-> IF peakDay # NoPeak THEN <<peakDay.dayName>> ELSE <<"N/A">>,
         peakEmissions |-> IF peakDay # NoPeak THEN Fixed(peakDay.emissions, 2)
                           ELSE R(0)],
     daily |-> dailyData,
     buildings |-> Report_groupByBuilding(weeklyData),
     recommendations |-> Report_generateRecommendations(weeklyData, "weekly", tz)]

WeeklyReportWith(weeklyData, reportDate, endDate, dailyData, tz) ==
    WeeklyReportOf(weeklyData, reportDate, endDate, dailyData, findPeakDay(dailyData), tz)

WeeklyReportFrom(weeklyData, reportDate, endDate, tz) ==
    WeeklyReportWith(weeklyData, reportDate, endDate,
                     groupByDay(weeklyData, reportDate, DaysPerWeek, tz), tz)

\* The Sunday 00:00 on or before the date.
StartOfWeek(date) == StartOfDay(AddDays(date, -WeekdayOf(date)))

generateWeeklyReport(d, date, tz) ==
    WeeklyReportFrom(FilterWindow(d.items, Len(d.items), StartOfWeek(date),
                                  AddDays(StartOfWeek(date), DaysPerWeek)),
                     StartOfWeek(date), AddDays(StartOfWeek(date), DaysPerWeek), tz)

\* The monthly report of the readings of the month, which begins at
\* reportDate.
MonthlyReportFrom(monthlyData, year, month, reportDate, daysInMonth, tz) ==
    [reportType |-> "monthly",
     year |-> year,
     month |-> month,
     summary |->
        [totalEmissions |-> Fixed(TotalEmissions(monthlyData), 2),
         totalEnergy |-> Fixed(TotalEnergy(monthlyData), 2),
         readingCount |-> Len(monthlyData),
         dailyAverage |-> Fixed(Div(TotalEmissions(monthlyData), R(daysInMonth)), 2)],
     daily |-> groupByDay(monthlyData, reportDate, daysInMonth, tz),
     buildings |-> Report_groupByBuilding(monthlyData),
     weeklyTrend |-> calculateWeeklyTrend(monthlyData, reportDate, tz),
     recommendations |-> Report_generateRecommendations(monthlyData, "monthly", tz)]

generateMonthlyReport(d, year, month, tz) ==
    MonthlyReportFrom(FilterWindow(d.items, Len(d.items),
                                   MonthStart(year, month) * HoursPerDay,
                                   MonthStart(year, month + 1) * HoursPerDay),
                      year, month, MonthStart(year, month) * HoursPerDay,
                      DaysInMonth(year, month), tz)

-----------------------------------------------------------------------------
(* Inputs of the reports *)

MaxReportLen == 2

\* Saturday 28 January 2023 23:00, the Sunday after it at 00:00, Tuesday
\* 31 January 23:00 and Wednesday 1 February 00:00.
ReportTimes == {671, 672, 743, 744}

ReportChoices == {<<"B-101", R(1)>>, <<"B-102", Rat(251, 100)>>}

ReportData(len) ==
    { Arr([i \in 1..len |->
              Reading(i, g[i][1], g[i][2][1], "D-1", g[i][2][2], R(2), "")]) :
      g \in [1..len -> ReportTimes \X ReportChoices] }

\* count readings in consecutive hours from firstHour on
HourlyRun(count, firstHour, b, dev, em, en, name) ==
    [i \in 1..count |-> Reading(0, firstHour + i - 1, b, dev, em, en, name)]

\* Five readings of one building on Sunday 29 January from 09:00 on, above
\* 100 kg in total, under a plain name and under names that carry a comma,
\* double quotes and a line break; five small readings of a building of
\* the static table; two buildings and three devices over Sunday and
\* Monday; four readings; two readings of which the second alone carries a
\* name; one reading on Sunday at 23:00 and four larger ones in the first
\* hours of Monday.
ReportExamples ==
    { Renumbered(HourlyRun(5, 681, "B-7", "D-1", R(30), R(2), "Annex")),
      Renumbered(HourlyRun(5, 681, "B-7", "D-1", R(30), R(2), "East, Annex")),
      Renumbered(HourlyRun(5, 681, "B-7", "D-1", R(30), R(2), "The \"Lab\"")),
      Renumbered(HourlyRun(5, 681, "B-7", "D-1", R(30), R(2), "Depot\nNorth")),
      Renumbered(HourlyRun(5, 681, "B-103", "D-1", Rat(1, 8), R(2), "")),
      Renumbered(HourlyRun(3, 694, "B-101", "D-1", R(40), R(2), "")
                    \o HourlyRun(2, 681, "B-101", "D-2", R(1), R(2), "")
                    \o HourlyRun(2, 700, "B-9", "D-3", R(7), R(2), "")),
      Renumbered(HourlyRun(4, 681, "B-101", "D-1", R(30), R(2), "")),
      Renumbered(HourlyRun(1, 681, "B-7", "D-1", R(30), R(2), "")
                    \o HourlyRun(1, 682, "B-7", "D-1", R(30), R(2), "Annex")),
      Renumbered(HourlyRun(1, 695, "B-101", "D-1", R(1), R(2), "")
                    \o HourlyRun(4, 696, "B-101", "D-1", R(30), R(2), "")) }

DailyDates == {681, 743}
WeeklyDates == {671, 700}
MonthlyDates == {<<2023, 1>>, <<2023, 2>>}

InitReport ==
    /\ \/ data \in UNION { ReportData(len) : len \in 0..MaxReportLen } /\ tzOffset = 0
       \/ data \in ReportExamples /\ tzOffset \in TimeZones
    /\ call = NoCall
    /\ ret = <<>>

GenerateDailyReport ==
    \E date \in DailyDates :
        /\ call' = [op |-> "generateDailyReport", date |-> date]
        /\ ret' = generateDailyReport(data, date, tzOffset)
        /\ UNCHANGED <<data, tzOffset>>

GenerateWeeklyReport ==
    \E date \in WeeklyDates :
        /\ call' = [op |-> "generateWeeklyReport", date |-> date]
        /\ ret' = generateWeeklyReport(data, date, tzOffset)
        /\ UNCHANGED <<data, tzOffset>>

GenerateMonthlyReport ==
    \E ym \in MonthlyDates :
        /\ call' = [op |-> "generateMonthlyReport", year |-> ym[1], month |-> ym[2]]
        /\ ret' = generateMonthlyReport(data, ym[1], ym[2], tzOffset)
        /\ UNCHANGED <<data, tzOffset>>

NextReport == GenerateDailyReport \/ GenerateWeeklyReport \/ GenerateMonthlyReport

SpecReport == InitReport /\ [][NextReport]_vars

\* For every length of a month and every weekday of its 1st, a month of
\* that kind.
TrendMonths ==
    { <<2026, 2>>, <<2027, 2>>, <<2033, 2>>, <<2023, 2>>, <<2029, 2>>, <<2030, 2>>,
      <<2025, 2>>,
      <<2032, 2>>, <<2044, 2>>, <<2028, 2>>, <<2040, 2>>, <<2024, 2>>, <<2036, 2>>,
      <<2048, 2>>,
      <<2024, 9>>, <<2024, 4>>, <<2025, 4>>, <<2023, 11>>, <<2023, 6>>, <<2023, 9>>,
      <<2023, 4>>,
      <<2023, 1>>, <<2023, 5>>, <<2023, 8>>, <<2023, 3>>, <<2024, 8>>, <<2023, 12>>,
      <<2023, 7>> }

\* One reading on each of the days from..to of a month: at 00:00 on the
\* 1st and at 23:00 on the other days.
MonthOfReadings(year, month, from, to, amount) ==
    Renumbered([k \in 1..(to - from + 1) |->
        LET d == from + k - 1
        IN Reading(0, (MonthStart(year, month) + d - 1) * HoursPerDay
                         + (IF d = 1 THEN 0 ELSE 23),
                   "B-101", "D-1", amount, R(2), "")])

\* 1 kg a day, or 4 g a day.
DailyAmounts == {R(1), Rat(1, 250)}

\* The readings of the first 16 days of a month or those of its days from
\* the 16th on.
InitMonth ==
    /\ \E ym \in TrendMonths, amount \in DailyAmounts :
          \/ data = MonthOfReadings(ym[1], ym[2], 1, 16, amount)
          \/ data = MonthOfReadings(ym[1], ym[2], 16, DaysInMonth(ym[1], ym[2]), amount)
    /\ tzOffset \in TimeZones
    /\ call = NoCall
    /\ ret = <<>>

\* The report of a month of which the store holds a reading.
GenerateReportOfMonth ==
    \E ym \in TrendMonths :
        /\ { i \in 1..Len(data.items) :
                data.items[i].timestamp \in
                   (MonthStart(ym[1], ym[2]) * HoursPerDay)
                      ..(MonthStart(ym[1], ym[2] + 1) * HoursPerDay - 1) } # {}
        /\ call' = [op |-> "generateMonthlyReport", year |-> ym[1], month |-> ym[2]]
        /\ ret' = generateMonthlyReport(data, ym[1], ym[2], tzOffset)
        /\ UNCHANGED <<data, tzOffset>>

SpecMonth == InitMonth /\ [][GenerateReportOfMonth]_vars

-----------------------------------------------------------------------------
(* Properties of the reports *)

Timestamps == [i \in 1..Len(data.items) |-> data.items[i].timestamp]

\* The readings of the store that satisfy a condition on their timestamp.
ReadingsWhere(P(_)) == {i \in 1..Len(data.items) : P(data.items[i].timestamp)}

OnDayOf(date, ts) == DayOf(ts) = DayOf(date)

InWeekOf(date, ts) == DayOf(ts) - WeekdayOf(ts) = DayOf(date) - WeekdayOf(date)

InMonth(year, month, ts) ==
    DateOf(DayOf(ts)).year = year /\ DateOf(DayOf(ts)).month = month

\* The days on which a reading or a report date of the inputs falls.
ReportDays == 27..31

\* C12: a daily report counts the readings of the calendar day of its date,
\* midnight belonging to the day it begins, so that the counts of the daily
\* reports of consecutive days add up to the number of readings on these
\* days; a weekly report counts the readings of the week from Sunday 00:00
\* on, a monthly report those of the calendar month.
C12_HalfOpenWindows ==
    /\ call.op = "generateDailyReport" =>
          /\ ret.summary.readingCount =
                Cardinality(ReadingsWhere(LAMBDA ts : OnDayOf(call.date, ts)))
          /\ \A i \in 1..Len(data.items) :
                Cardinality({day \in ReportDays :
                    InWindow(data.items[i], day * HoursPerDay,
                             (day + 1) * HoursPerDay)}) = 1
    /\ call.op = "generateWeeklyReport" =>
          ret.summary.readingCount =
             Cardinality(ReadingsWhere(LAMBDA ts : InWeekOf(call.date, ts)))
    /\ call.op = "generateMonthlyReport" =>
          ret.summary.readingCount =
             Cardinality(ReadingsWhere(LAMBDA ts : InMonth(call.year, call.month, ts)))

\* A reading stamped Sunday 00:00 and one stamped Saturday 23:00: the report
\* of Sunday counted the first alone.
C12_Witness ==
    /\ call.op = "generateDailyReport"
    /\ call.date = 681
    /\ Timestamps = <<672, 671>>
    /\ ret.summary.readingCount = 1

\* The reading's time is in the window of the report that was asked for.
InReportWindow(ts) ==
    CASE call.op = "generateDailyReport" -> OnDayOf(call.date, ts)
      [] call.op = "generateWeeklyReport" -> InWeekOf(call.date, ts)
      [] call.op = "generateMonthlyReport" -> InMonth(call.year, call.month, ts)

\* The names that the readings of a building in the window carry.
NamesCarried(b) ==
    {data.items[i].metadata.buildingName :
        i \in {i \in ReadingsWhere(InReportWindow) : data.items[i].buildingId = b}} \ {""}

\* C25 as stated: a building of a report has a name that a reading of it in
\* the window carries when one does, whatever the order of the readings,
\* else its name of the static table, else its id.
C25_NameOfAnyReading ==
    call.op \in {"generateDailyReport", "generateWeeklyReport", "generateMonthlyReport"} =>
        \A i \in 1..Len(ret.buildings) :
            LET b == ret.buildings[i]
            IN IF NamesCarried(b.id) # {}
               THEN b.name \in NamesCarried(b.id)
               ELSE b.name = OrElse(BuildingNames(b.id), b.id)

\* The same where the first reading of each building in the window carries
\* the name if any reading of it does.
NameOfFirstReading ==
    call.op \in {"generateDailyReport", "generateWeeklyReport", "generateMonthlyReport"} =>
        \A i \in 1..Len(ret.buildings) :
            LET b == ret.buildings[i]
                of == {k \in ReadingsWhere(InReportWindow) : data.items[k].buildingId = b.id}
                first == CHOOSE k \in of : \A j \in of : k <= j
            IN b.name = OrElse(data.items[first].metadata.buildingName,
                               OrElse(BuildingNames(b.id), b.id))

\* The recommendations of a category.
RecsOf(category) ==
    SelectSeq(ret.recommendations, LAMBDA rec : rec.category = category)

\* C28 as stated: a weekly report of at least 5 readings has one timing
\* recommendation, and the day it names is summary.peakDay, in whatever
\* order the readings are and wherever in the week the first one falls.
C28_TimingNamesPeakDay ==
    (call.op = "generateWeeklyReport" /\ ret.summary.readingCount >= 5) =>
        /\ Len(RecsOf("timing")) = 1
        /\ <<RecsOf("timing")[1].text[1]>> = ret.summary.peakDay

\* The same for the existence of the recommendation alone: the day it
\* names is a day of the week.
TimingNamesADay ==
    (call.op = "generateWeeklyReport" /\ ret.summary.readingCount >= 5) =>
        /\ Len(RecsOf("timing")) = 1
        /\ \E k \in 1..DaysPerWeek : RecsOf("timing")[1].text[1] = DayNames[k]

\* The day of the month of a date label of the month of the report.
DayOfMonth(label) == label.at - MonthStart(call.year, call.month) + 1

\* The days of the month of a week of the trend.
DaysOfWeek(week) == DayOfMonth(week.startDate)..DayOfMonth(week.endDate)

\* The weeks' ranges are non-empty, begin with day 1, follow one another
\* without a gap and end with the last day of the month, and no week is
\* missing.
WeekRangesPartition ==
    LET weeks == ret.weeklyTrend
        daysInMonth == DaysInMonth(call.year, call.month)
        startDay == WeekdayOf(MonthStart(call.year, call.month) * HoursPerDay)
    IN /\ Len(weeks) = CeilDiv(daysInMonth + startDay, DaysPerWeek)
       /\ \A w \in 1..Len(weeks) :
             /\ weeks[w].week = w
             /\ DaysOfWeek(weeks[w]) # {}
             /\ DayOfMonth(weeks[w].startDate) =
                   IF w = 1 THEN 1 ELSE DayOfMonth(weeks[w - 1].endDate) + 1
       /\ DayOfMonth(weeks[Len(weeks)].endDate) = daysInMonth

\* Every week counts the readings of the month on the days of its range,
\* and the counts add up to the count of the summary.
WeekCountsFollowRanges ==
    LET weeks == ret.weeklyTrend
    IN /\ \A w \in 1..Len(weeks) :
             weeks[w].readingCount =
                Cardinality({i \in ReadingsWhere(InReportWindow) :
                    DateOf(DayOf(data.items[i].timestamp)).date \in DaysOfWeek(weeks[w])})
       /\ RSum([w \in 1..Len(weeks) |-> R(weeks[w].readingCount)])
             = R(ret.summary.readingCount)

\* The totals of the weeks add up to the totals of the summary.
WeekTotalsAddUp ==
    LET weeks == ret.weeklyTrend
    IN /\ RSum([w \in 1..Len(weeks) |-> weeks[w].totalEmissions])
             = ret.summary.totalEmissions
       /\ RSum([w \in 1..Len(weeks) |-> weeks[w].totalEnergy])
             = ret.summary.totalEnergy

\* C29 as stated: the weeks of a monthly report partition the month, for
\* every length of the month and every weekday of its 1st: their day
\* ranges are non-empty, disjoint, contiguous and cover the month, no week
\* is dropped, every reading is counted in the week whose range contains
\* its day, and the weeks' counts and totals add up to the summary's.
C29_WeeksPartitionTheMonth ==
    call.op = "generateMonthlyReport" =>
        WeekRangesPartition /\ WeekCountsFollowRanges /\ WeekTotalsAddUp

\* The same where the process is not east of UTC, the totals apart.
WeeksPartitionTheMonthWestOfUTC ==
    (call.op = "generateMonthlyReport" /\ tzOffset <= 0) =>
        WeekRangesPartition /\ WeekCountsFollowRanges

\* The totals of the weeks add up to the totals of the summary where every
\* reading is a whole number of kg and of kWh.
WholeWeekTotalsAddUp ==
    (call.op = "generateMonthlyReport"
        /\ \A i \in 1..Len(data.items) : data.items[i].carbonEmissions = R(1)) =>
        WeekTotalsAddUp

-----------------------------------------------------------------------------
(* getStatistics *)

\* A value together with its type: numbers and strings are never equal.
Num(a) == [type |-> "number", value |-> a]
Str(text) == [type |-> "string", value |-> text]

\* x === y
StrictEquals(x, y) == x.type = y.type /\ x.value = y.value

\* Number.prototype.toFixed(2): the digits before the point, the point and
\* exactly 2 decimals.
FixedText(a) ==
    IF a = NaN THEN <<"NaN">>
    ELSE IF ~IsFinite(a) THEN <<"Infinity">>
    ELSE LET rounded == Fixed(a, 2)
             hundredths == (Abs(rounded.n) * 100) \div rounded.d
         IN (IF a.n < 0 THEN <<"-">> ELSE <<>>) \o Digits(hundredths \div 100)
               \o <<".", Digit((hundredths % 100) \div 10), Digit(hundredths % 10)>>

\* toFixed(2) returned as a number.
FixedNumber(a) == Num(Fixed(a, 2))

\* toFixed(2) as it is returned: a string.
FixedString(a) == Str(FixedText(a))

\* Math.min(...values), Math.max(...values) of a non-empty array
RECURSIVE MinOf(_, _)
MinOf(values, k) ==
    IF k = 1 THEN values[1]
    ELSE LET rest == MinOf(values, k - 1) IN IF RLt(values[k], rest) THEN values[k] ELSE rest

RECURSIVE MaxOf(_, _)
MaxOf(values, k) ==
    IF k = 1 THEN values[1]
    ELSE LET rest == MaxOf(values, k - 1) IN IF RGt(values[k], rest) THEN values[k] ELSE rest

\* new Date(ms).toISOString(): the instant in UTC
IsoInstant(hour, tz) == [kind |-> "instant", at |-> hour - tz]

\* The statistics of a non-empty array of emissions, energy and timestamps.
StatisticsOf(emissions, energy, timestamps, tz) ==
    LET n == Len(emissions)
        startDate == CHOOSE t \in {timestamps[i] : i \in 1..n} :
                        \A i \in 1..n : t <= timestamps[i]
        endDate == CHOOSE t \in {timestamps[i] : i \in 1..n} :
                        \A i \in 1..n : t >= timestamps[i]
    IN [count |-> n,
        emissionsTotal |-> FixedString(RSum(emissions)),
        emissionsAvg |-> FixedString(RDiv(RSum(emissions), R(n))),
        emissionsMin |-> FixedString(MinOf(emissions, n)),
        emissionsMax |-> FixedString(MaxOf(emissions, n)),
        energyTotal |-> FixedString(RSum(energy)),
        energyAvg |-> FixedString(RDiv(RSum(energy), R(n))),
        energyMin |-> FixedString(MinOf(energy, n)),
        energyMax |-> FixedString(MaxOf(energy, n)),
        dateRange |-> [start |-> IsoInstant(startDate, tz),
                       end |-> IsoInstant(endDate, tz)]]

\* The value of a missing date (null).
NoDate == [kind |-> "null", at |-> 0]

getStatistics(d, tz) ==
    IF d.isNull \/ Len(d.items) = 0
    THEN [count |-> 0,
          emissionsTotal |-> Num(R(0)), emissionsAvg |-> Num(R(0)),
          emissionsMin |-> Num(R(0)), emissionsMax |-> Num(R(0)),
          energyTotal |-> Num(R(0)), energyAvg |-> Num(R(0)),
          energyMin |-> Num(R(0)), energyMax |-> Num(R(0)),
          dateRange |-> [start |-> NoDate, end |-> NoDate]]
    ELSE StatisticsOf(Emissions(d.items), Energy(d.items),
                      [i \in 1..Len(d.items) |-> d.items[i].timestamp], tz)

\* The readings of the store on the calendar day of a date, in their order.
ReadingsOnDayOf(date) ==
    SelectSeq(data.items, LAMBDA item : OnDayOf(date, item.timestamp))

\* C13 as stated: the summary totals and the reading count of a daily
\* report are equal to emissionsTotal, energyTotal and count of
\* getStatistics over the readings of that day.
C13_SummaryEqualsStatistics ==
    call.op = "generateDailyReport" =>
        LET stats == getStatistics(Arr(ReadingsOnDayOf(call.date)), tzOffset)
        IN /\ StrictEquals(Num(ret.summary.totalEmissions), stats.emissionsTotal)
           /\ StrictEquals(Num(ret.summary.totalEnergy), stats.energyTotal)
           /\ ret.summary.readingCount = stats.count

-----------------------------------------------------------------------------
(* exportReportAsCsv.  The CSV text is the sequence of the lines written,  *)
(* each followed by a line break; a line is a text.                         *)

\* padStart(2, '0') of the digits of a number below 100
Pad2(n) == <<Digit(n \div 10), Digit(n % 10)>>

\* The text YYYY-MM-DD of a date.
DateText(isoDate) ==
    LET d == DateOf(isoDate.at)
    IN Digits(d.year) \o <<"-">> \o Pad2(d.month) \o <<"-">> \o Pad2(d.date)

\* The cells of a line joined by commas.
RECURSIVE Joined(_, _)
Joined(cells, k) ==
    IF k = 0 THEN <<>>
    ELSE IF k = 1 THEN cells[1]
    ELSE Joined(cells, k - 1) \o <<Comma>> \o cells[k]

Row(cells) == Joined(cells, Len(cells))

CsvMetadata(report) ==
    <<Row(<<<<"Report Type">>, <<report.reportType>>>>)>>
       \o (CASE report.reportType = "daily" ->
                   <<Row(<<<<"Date">>, DateText(report.date)>>)>>
              [] report.reportType = "weekly" ->
                   <<Row(<<<<"Start Date">>, DateText(report.startDate)>>),
                     Row(<<<<"End Date">>, DateText(report.endDate)>>)>>
              [] report.reportType = "monthly" ->
                   <<Row(<<<<"Year">>, Digits(report.year)>>),
                     Row(<<<<"Month">>, Digits(report.month)>>)>>
              [] OTHER -> <<>>)
       \o << <<>> >>

CsvSummary(report) ==
    << <<"SUMMARY">>,
       Row(<<<<"Total Emissions (kg CO2)">>, NumText(report.summary.totalEmissions)>>),
       Row(<<<<"Total Energy (kWh)">>, NumText(report.summary.totalEnergy)>>),
       Row(<<<<"Reading Count">>, Digits(report.summary.readingCount)>>) >>
       \o (CASE report.reportType = "daily" /\ report.summary.peakHour # <<>> ->
                   <<Row(<<<<"Peak Hour">>, report.summary.peakHour>>),
                     Row(<<<<"Peak Emissions (kg CO2)">>,
                           NumText(report.summary.peakEmissions)>>)>>
              [] report.reportType = "weekly" /\ report.summary.peakDay # <<>> ->
                   <<Row(<<<<"Peak Day">>, report.summary.peakDay>>),
                     Row(<<<<"Peak Emissions (kg CO2)">>,
                           NumText(report.summary.peakEmissions)>>)>>
              [] report.reportType = "monthly" ->
                   <<Row(<<<<"Daily Average (kg CO2)">>,
                           NumText(report.summary.dailyAverage)>>)>>
              [] OTHER -> <<>>)
       \o << <<>> >>

CsvBuildings(report) ==
    << <<"BUILDINGS">>,
       <<"Building", Comma, "Total Emissions (kg CO2)", Comma, "Total Energy (kWh)",
         Comma, "Reading Count">> >>
       \o [i \in 1..Len(report.buildings) |->
              LET building == report.buildings[i]
              IN Row(<<Text(building.name), NumText(building.totalEmissions),
                       NumText(building.totalEnergy), Digits(building.readingCount)>>)]
       \o << <<>> >>

CsvTimeData(report) ==
    (CASE report.reportType = "daily" ->
            << <<"HOURLY DATA">>,
               <<"Hour", Comma, "Total Emissions (kg CO2)", Comma, "Total Energy (kWh)",
                 Comma, "Reading Count">> >>
               \o [i \in 1..Len(report.hourly) |->
                      LET hour == report.hourly[i]
                      IN Row(<<Digits(hour.hour) \o <<":00">>, NumText(hour.totalEmissions),
                               NumText(hour.totalEnergy), Digits(hour.readingCount)>>)]
       [] report.reportType \in {"weekly", "monthly"} ->
            << <<"DAILY DATA">>,
               <<"Date", Comma, "Day", Comma, "Total Emissions (kg CO2)", Comma,
                 "Total Energy (kWh)", Comma, "Reading Count">> >>
               \o [i \in 1..Len(report.daily) |->
                      LET day == report.daily[i]
                      IN Row(<<DateText(day.date), <<day.dayName>>, NumText(day.totalEmissions),
                               NumText(day.totalEnergy), Digits(day.readingCount)>>)]
       [] OTHER -> <<>>)
       \o << <<>> >>

CsvRecommendations(report) ==
    << <<"RECOMMENDATIONS">>,
       <<"Priority", Comma, "Category", Comma, "Recommendation">> >>
       \o [i \in 1..Len(report.recommendations) |->
              LET rec == report.recommendations[i]
              IN Row(<<<<rec.priority>>, <<rec.category>>,
                       <<Quote>> \o rec.text \o <<Quote>>>>)]

exportReportAsCsv(report) ==
    CsvMetadata(report) \o CsvSummary(report) \o CsvBuildings(report)
       \o CsvTimeData(report) \o CsvRecommendations(report)

-----------------------------------------------------------------------------
(* exportReportAsJson.  Of the JSON document, the members that the CSV     *)
(* also carries: each string as its JSON string literal, each number as    *)
(* its numeral.                                                             *)

\* The characters of a string inside a JSON string literal: a double quote
\* and a line break are escaped.
RECURSIVE JsonEscaped(_, _)
JsonEscaped(text, k) ==
    IF k = 0 THEN <<>>
    ELSE JsonEscaped(text, k - 1)
            \o (CASE text[k] = Quote -> <<"\\", Quote>>
                   [] text[k] = LineBreak -> <<"\\", "n">>
                   [] OTHER -> <<text[k]>>)

JsonString(text) == <<Quote>> \o JsonEscaped(text, Len(text)) \o <<Quote>>

Member(key, value) == [key |-> key, value |-> value]

\* The members of the summary, in the order of the report object.
JsonSummary(report) ==
    << Member("totalEmissions", NumText(report.summary.totalEmissions)),
       Member("totalEnergy", NumText(report.summary.totalEnergy)),
       Member("readingCount", Digits(report.summary.readingCount)) >>
       \o (CASE report.reportType = "daily" ->
                   << Member("peakHour", JsonString(report.summary.peakHour)),
                      Member("peakEmissions", NumText(report.summary.peakEmissions)) >>
              [] report.reportType = "weekly" ->
                   << Member("peakDay", JsonString(report.summary.peakDay)),
                      Member("peakEmissions", NumText(report.summary.peakEmissions)) >>
              [] OTHER ->
                   << Member("dailyAverage", NumText(report.summary.dailyAverage)) >>)

exportReportAsJson(report) ==
    [reportType |-> JsonString(<<report.reportType>>),
     summary |-> JsonSummary(report),
     buildings |->
        [i \in 1..Len(report.buildings) |->
            [name |-> JsonString(Text(report.buildings[i].name)),
             totalEmissions |-> NumText(report.buildings[i].totalEmissions),
             totalEnergy |-> NumText(report.buildings[i].totalEnergy),
             readingCount |-> Digits(report.buildings[i].readingCount)]],
     recommendations |->
        [i \in 1..Len(report.recommendations) |->
            [priority |-> JsonString(<<report.recommendations[i].priority>>),
             category |-> JsonString(<<report.recommendations[i].category>>),
             text |-> JsonString(report.recommendations[i].text)]]]

-----------------------------------------------------------------------------
(* The export of a report that has been generated *)

IsReportCall == call.op \in {"generateDailyReport", "generateWeeklyReport",
                              "generateMonthlyReport"}

ExportReportAsCsv ==
    /\ IsReportCall
    /\ call' = [op |-> "exportReportAsCsv", report |-> ret]
    /\ ret' = exportReportAsCsv(ret)
    /\ UNCHANGED <<data, tzOffset>>

ExportReportAsJson ==
    /\ IsReportCall
    /\ call' = [op |-> "exportReportAsJson", report |-> ret]
    /\ ret' = exportReportAsJson(ret)
    /\ UNCHANGED <<data, tzOffset>>

NextExport == NextReport \/ ExportReportAsCsv \/ ExportReportAsJson

SpecExport == InitReport /\ [][NextExport]_vars

-----------------------------------------------------------------------------
(* Reading the exports back *)

\* The parts of a text between the occurrences of a separator.
RECURSIVE SplitAt(_, _, _)
SplitAt(text, sep, k) ==
    IF k = 0 THEN << <<>> >>
    ELSE LET parts == SplitAt(text, sep, k - 1)
         IN IF text[k] = sep THEN Append(parts, <<>>)
            ELSE [parts EXCEPT ![Len(parts)] = Append(@, text[k])]

\* The lines of a CSV text: each line written ends at its line break, and
\* so does every part of it that a line break inside it ends.
RECURSIVE CsvLines(_, _)
CsvLines(csv, k) ==
    IF k = 0 THEN <<>>
    ELSE CsvLines(csv, k - 1) \o SplitAt(csv[k], LineBreak, Len(csv[k]))

\* The number of double quotes among the first k pieces of a line.
QuotesBefore(line, k) == Cardinality({i \in 1..k : line[i] = Quote})

\* The fields of a line: the parts between the commas that are outside
\* double quotes.
RECURSIVE FieldsTo(_, _)
FieldsTo(line, k) ==
    IF k = 0 THEN << <<>> >>
    ELSE LET fields == FieldsTo(line, k - 1)
         IN IF line[k] = Comma /\ QuotesBefore(line, k) % 2 = 0
            THEN Append(fields, <<>>)
            ELSE [fields EXCEPT ![Len(fields)] = Append(@, line[k])]

\* A field in double quotes is the text between them.
Unquoted(field) ==
    IF Len(field) >= 2 /\ field[1] = Quote /\ field[Len(field)] = Quote
    THEN SubSeq(field, 2, Len(field) - 1)
    ELSE field

Fields(line) ==
    LET fields == FieldsTo(line, Len(line))
    IN [i \in 1..Len(fields) |-> Unquoted(fields[i])]

IndexOf(lines, line) == CHOOSE i \in 1..Len(lines) : lines[i] = line

\* The non-empty lines after a section header and before the next header
\* (or the end), without the line of column titles.
SectionRows(lines, header, next, titled) ==
    LET from == IndexOf(lines, <<header>>) + (IF titled THEN 2 ELSE 1)
        to == IF next = "" THEN Len(lines) ELSE IndexOf(lines, <<next>>) - 1
    IN SelectSeq(SubSeq(lines, from, to), LAMBDA line : line # <<>>)

HasSections(lines, headers) ==
    /\ \A i \in 1..Len(headers) : \E k \in 1..Len(lines) : lines[k] = <<headers[i]>>
    /\ \A i \in 1..(Len(headers) - 1) :
          IndexOf(lines, <<headers[i]>>) < IndexOf(lines, <<headers[i + 1]>>)

IsDigit(piece) == \E k \in 0..9 : piece = Digit(k)

DigitValue(piece) == CHOOSE k \in 0..9 : piece = Digit(k)

RECURSIVE NatOf(_, _)
NatOf(digits, k) ==
    IF k = 0 THEN 0 ELSE NatOf(digits, k - 1) * 10 + DigitValue(digits[k])

\* parseFloat of a whole text: digits with at most one point and an
\* optional sign; any other text is no number.
ParseNum(text) ==
    LET negative == text # <<>> /\ text[1] = "-"
        body == IF negative THEN Tail(text) ELSE text
        points == {i \in 1..Len(body) : body[i] = "."}
    IN IF text = <<"Infinity">> THEN Infinity
       ELSE IF \/ body = <<>>
               \/ \E i \in 1..Len(body) : ~IsDigit(body[i]) /\ body[i] # "."
               \/ Cardinality(points) > 1
               \/ Len(body) \in points
       THEN NaN
       ELSE IF points = {} THEN R((IF negative THEN -1 ELSE 1) * NatOf(body, Len(body)))
       ELSE LET point == CHOOSE i \in points : TRUE
                whole == SubSeq(body, 1, point - 1)
                fraction == SubSeq(body, point + 1, Len(body))
            IN Rat((IF negative THEN -1 ELSE 1)
                      * (NatOf(whole, Len(whole)) * Pow10(Len(fraction))
                            + NatOf(fraction, Len(fraction))),
                   Pow10(Len(fraction)))

\* The characters that a JSON string literal stands for, from piece i on.
RECURSIVE JsonUnescaped(_, _)
JsonUnescaped(text, i) ==
    IF i > Len(text) THEN <<>>
    ELSE IF text[i] = "\\" /\ i < Len(text)
    THEN <<(IF text[i + 1] = "n" THEN LineBreak ELSE text[i + 1])>>
            \o JsonUnescaped(text, i + 2)
    ELSE <<text[i]>> \o JsonUnescaped(text, i + 1)

\* JSON.parse of a string literal or a numeral.
JsonValue(json) ==
    IF json # <<>> /\ json[1] = Quote
    THEN Str(JsonUnescaped(SubSeq(json, 2, Len(json) - 1), 1))
    ELSE Num(ParseNum(json))

\* A CSV field read as a value of the type of a JSON value.
CsvValue(field, like) ==
    IF like.type = "number" THEN Num(ParseNum(field)) ELSE Str(field)

-----------------------------------------------------------------------------
(* Properties of the exports *)

\* A row of the CSV carries the values of the JSON texts, one field each.
RowCarries(line, jsonTexts) ==
    LET fields == Fields(line)
    IN /\ Len(fields) = Len(jsonTexts)
       /\ \A i \in 1..Len(jsonTexts) :
             CsvValue(fields[i], JsonValue(jsonTexts[i])) = JsonValue(jsonTexts[i])

\* The rows of a section carry, in order, the values of a sequence of
\* sequences of JSON texts.
RowsCarry(rows, jsonRows) ==
    /\ Len(rows) = Len(jsonRows)
    /\ \A i \in 1..Len(jsonRows) : RowCarries(rows[i], jsonRows[i])

TimeHeader(report) == IF report.reportType = "daily" THEN "HOURLY DATA" ELSE "DAILY DATA"

\* The CSV of a report, split at its section headers, gives back the
\* summary values, the building rows and the recommendation rows of the
\* JSON of the report.
CsvAgreesWithJson(csv, report) ==
    LET lines == CsvLines(csv, Len(csv))
        json == exportReportAsJson(report)
    IN /\ HasSections(lines, <<"SUMMARY", "BUILDINGS", TimeHeader(report),
                               "RECOMMENDATIONS">>)
       /\ LET rows == SectionRows(lines, "SUMMARY", "BUILDINGS", FALSE)
          IN /\ Len(rows) = Len(json.summary)
             /\ \A i \in 1..Len(json.summary) :
                   /\ Len(Fields(rows[i])) = 2
                   /\ RowCarries(<<"label", Comma>> \o Fields(rows[i])[2],
                                 <<JsonString(<<"label">>), json.summary[i].value>>)
       /\ RowsCarry(SectionRows(lines, "BUILDINGS", TimeHeader(report), TRUE),
                    [i \in 1..Len(json.buildings) |->
                        <<json.buildings[i].name, json.buildings[i].totalEmissions,
                          json.buildings[i].totalEnergy, json.buildings[i].readingCount>>])
       /\ RowsCarry(SectionRows(lines, "RECOMMENDATIONS", "", TRUE),
                    [i \in 1..Len(json.recommendations) |->
                        <<json.recommendations[i].priority,
                          json.recommendations[i].category,
                          json.recommendations[i].text>>])

\* C14 as stated: the CSV of every report gives back the values of its
\* JSON, whatever the building names are.
C14_CsvRecoversJson ==
    call.op = "exportReportAsCsv" => CsvAgreesWithJson(ret, call.report)

HasSpecialName(report) ==
    \E i \in 1..Len(report.buildings) :
        \E k \in 1..Len(Text(report.buildings[i].name)) :
            Text(report.buildings[i].name)[k] \in SpecialCharacters

\* The same for the reports whose building names carry no comma, double
\* quote or line break.
CsvRecoversJsonOfPlainNames ==
    (call.op = "exportReportAsCsv" /\ ~HasSpecialName(call.report)) =>
        CsvAgreesWithJson(ret, call.report)

-----------------------------------------------------------------------------
(* The analyzer and the report generator over one array of readings: every
   call is logged with its result, call[i] being the i-th call made and
   ret[i] what it returned. *)

MaxCalls == 3

Reverse(s) == [i \in 1..Len(s) |-> s[Len(s) + 1 - i]]

\* this.data had the sort acted on the array itself.
DataSortedInPlace(d) ==
    IF d.isNull \/ Len(d.items) = 0 THEN d ELSE Arr(SortByTime(d.items, Len(d.items)))

\* this.data after identifyTrends has run: the sort of line 217 acts on the
\* spread copy [...this.data], so the array itself keeps its order.
DataAfterIdentifyTrends(d) == d

\* forecast and generateRecommendations reach identifyTrends with 10 readings
\* or more.
DataAfterGuardedTrends(d) ==
    IF d.isNull \/ Len(d.items) < 10 THEN d ELSE DataAfterIdentifyTrends(d)

\* No array; two readings out of order; five
\* readings of a named building; ten readings of two buildings, the latest
\* first.
AnalyticsInputs ==
    { Null,
      Renumbered(Reverse(HourlyRun(2, 743, "B-102", "D-1", Rat(251, 100), R(2), ""))),
      Renumbered(HourlyRun(5, 681, "B-7", "D-1", R(30), R(2), "Annex")),
      Renumbered(Reverse(HourlyRun(6, 676, "B-101", "D-1", R(40), R(2), "")
                             \o HourlyRun(4, 700, "B-9", "D-3", R(7), R(3), ""))) }

InitAnalytics ==
    /\ data \in AnalyticsInputs
    /\ call = <<>>
    /\ ret = <<>>
    /\ tzOffset = 0

CanCall == Len(call) < MaxCalls

Logged(c, result, after) ==
    /\ call' = Append(call, c)
    /\ ret' = Append(ret, result)
    /\ data' = after
    /\ UNCHANGED tzOffset

CallGetStatistics ==
    /\ CanCall
    /\ Logged([op |-> "getStatistics"], getStatistics(data, tzOffset), data)

CallDetectAnomalies ==
    /\ CanCall
    /\ Logged([op |-> "detectAnomalies", threshold |-> Undefined],
           detectAnomalies(data, Undefined), data)

CallCalculateCarbonIntensity ==
    /\ CanCall
    /\ Logged([op |-> "calculateCarbonIntensity"], calculateCarbonIntensity(data), data)

CallIdentifyTrends ==
    /\ CanCall
    /\ Logged([op |-> "identifyTrends", interval |-> "hour"],
              identifyTrends(data, "hour"),
              IF data.isNull \/ Len(data.items) = 0
              THEN data ELSE DataAfterIdentifyTrends(data))

CallGenerateRecommendations ==
    /\ CanCall
    /\ Logged([op |-> "generateRecommendations"], generateRecommendations(data),
           DataAfterGuardedTrends(data))

CallForecast ==
    /\ CanCall
    /\ Logged([op |-> "forecast", periods |-> 2, interval |-> "day"],
           forecast(data, 2, "day", tzOffset, FALSE), DataAfterGuardedTrends(data))

CallGenerateDailyReport ==
    /\ CanCall
    /\ Logged([op |-> "generateDailyReport", date |-> 681],
           generateDailyReport(data, 681, tzOffset), data)

CallGenerateWeeklyReport ==
    /\ CanCall
    /\ Logged([op |-> "generateWeeklyReport", date |-> 700],
           generateWeeklyReport(data, 700, tzOffset), data)

CallGenerateMonthlyReport ==
    /\ CanCall
    /\ Logged([op |-> "generateMonthlyReport", year |-> 2023, month |-> 1],
           generateMonthlyReport(data, 2023, 1, tzOffset), data)

CallGroupByBuilding ==
    /\ CanCall
    /\ Logged([op |-> "groupByBuilding"], Report_groupByBuilding(data.items), data)

CallGroupByHour ==
    /\ CanCall
    /\ Logged([op |-> "groupByHour"], groupByHour(data.items), data)

CallGroupByDay ==
    /\ CanCall
    /\ Logged([op |-> "groupByDay", startDate |-> 672, days |-> 7],
           groupByDay(data.items, 672, 7, tzOffset), data)

NextAnalytics ==
    \/ CallGetStatistics
    \/ CallDetectAnomalies
    \/ CallCalculateCarbonIntensity
    \/ CallIdentifyTrends
    \/ CallGenerateRecommendations
    \/ CallForecast
    \/ CallGenerateDailyReport
    \/ CallGenerateWeeklyReport
    \/ CallGenerateMonthlyReport
    \/ CallGroupByBuilding
    \/ CallGroupByHour
    \/ CallGroupByDay

SpecAnalytics == InitAnalytics /\ [][NextAnalytics]_vars

-----------------------------------------------------------------------------
(* Properties of the calls taken together *)

\* Equal calls of the log have equal results.
Deterministic ==
    \A i \in 1..Len(call) : \A j \in 1..Len(call) :
        call[i] = call[j] => ret[i] = ret[j]

-----------------------------------------------------------------------------
(* The data service (src/services/dataService.js) and the CarbonData model
   (src/models/CarbonData.js).

   The store is the module's array carbonData, held in the variable data.
   An object is a function from the names of its properties to values that
   carry their type; a property it has not reads as undefined. *)

Undef == [type |-> "undefined", value |-> ""]
DateVal(hour) == [type |-> "date", value |-> hour]
EmptyObject == [type |-> "object", value |-> ""]

\* o[f] of an object
Prop(o, f) == IF f \in DOMAIN o THEN o[f] ELSE Undef

\* { ...a, ...b }
Spread(a, b) ==
    [f \in DOMAIN a \cup DOMAIN b |-> IF f \in DOMAIN b THEN b[f] ELSE a[f]]

\* The values that count as true: undefined, "", 0 and NaN do not.
Truthy(v) ==
    CASE v.type = "undefined" -> FALSE
      [] v.type = "string" -> v.value # ""
      [] v.type = "number" -> v.value # R(0) /\ v.value # NaN
      [] OTHER -> TRUE

\* v || w
Either(v, w) == IF Truthy(v) THEN v ELSE w

\* v < 0: undefined is NaN as a number, and NaN is below nothing.
BelowZero(v) == v.type = "number" /\ v.value # NaN /\ RLt(v.value, R(0))

\* new CarbonData(input), generateId() returning generated and new Date() now
CarbonData(input, generated, now) ==
    [id |-> Either(Prop(input, "id"), Str(generated)),
     timestamp |-> Either(Prop(input, "timestamp"), now),
     buildingId |-> Prop(input, "buildingId"),
     deviceId |-> Prop(input, "deviceId"),
     energyConsumption |-> Either(Prop(input, "energyConsumption"), Num(R(0))),
     carbonEmissions |-> Either(Prop(input, "carbonEmissions"), Num(R(0))),
     temperature |-> Prop(input, "temperature"),
     humidity |-> Prop(input, "humidity"),
     metadata |-> Either(Prop(input, "metadata"), EmptyObject)]

\* What a call gives: a value returned or an Error thrown.
Returned(v) == [threw |-> FALSE, value |-> v]
Threw(message) == [threw |-> TRUE, message |-> message]

\* validate() without its test of the emissions.
validateWithoutEmissions(o) ==
    IF ~Truthy(o.buildingId) THEN Threw("Building ID is required")
    ELSE IF BelowZero(o.energyConsumption)
    THEN Threw("Energy consumption cannot be negative")
    ELSE Returned(TRUE)

\* CarbonData.prototype.validate
validate(o) ==
    IF ~Truthy(o.buildingId) THEN Threw("Building ID is required")
    ELSE IF BelowZero(o.energyConsumption)
    THEN Threw("Energy consumption cannot be negative")
    ELSE IF BelowZero(o.carbonEmissions)
    THEN Threw("Carbon emissions cannot be negative")
    ELSE Returned(TRUE)

\* carbonData.findIndex(data => data.id === id), 0 standing for -1
FindIndex(items, id) ==
    IF \E i \in 1..Len(items) : StrictEquals(items[i].id, id)
    THEN CHOOSE i \in 1..Len(items) :
             /\ StrictEquals(items[i].id, id)
             /\ \A j \in 1..(i - 1) : ~StrictEquals(items[j].id, id)
    ELSE 0

\* carbonData.splice(index, 1)
Splice(items, index) == SubSeq(items, 1, index - 1) \o SubSeq(items, index + 1, Len(items))

\* A date given as the string "YYYY-MM-DD" of a day.
DateString(day) == [type |-> "date string", value |-> day]

\* new Date(v) as an hour of local time: a Date is itself, a string
\* "YYYY-MM-DD" is midnight UTC of the day.
ToDate(v, tz) == IF v.type = "date string" THEN ParseDayKey(v.value, tz) ELSE v.value

\* carbonData.find(data => data.id === id) || null
getCarbonDataById(items, id) ==
    LET index == FindIndex(items, id)
    IN IF index = 0 THEN Null ELSE items[index]

\* The filter by buildingId of getAllCarbonData.
ByBuilding(result, filter) ==
    IF Truthy(Prop(filter, "buildingId"))
    THEN SelectSeq(result, LAMBDA item : StrictEquals(item.buildingId, filter.buildingId))
    ELSE result

\* The filter by dates of getAllCarbonData.
ByDates(result, filter, tz) ==
    IF Truthy(Prop(filter, "startDate")) /\ Truthy(Prop(filter, "endDate"))
    THEN SelectSeq(result,
                   LAMBDA item :
                       /\ ToDate(item.timestamp, tz) >= ToDate(filter.startDate, tz)
                       /\ ToDate(item.timestamp, tz) <= ToDate(filter.endDate, tz))
    ELSE result

getAllCarbonData(items, filter, tz) == ByDates(ByBuilding(items, filter), filter, tz)

\* The store had the result been the array of the store itself.
StoreOfResult(store, result) == Arr(result)

\* The store after the caller changed the array that getAllCarbonData
\* returned: the result begins as the copy [...carbonData], an array of its
\* own.
StoreBesideResult(store, result) == store

-----------------------------------------------------------------------------
(* Inputs of the data service *)

MaxStore == 2

\* Strings that generateId() returns: the time in base 36 followed by
\* random digits.
GeneratedIds == <<"lq1x0a7k", "lq1x0b3m", "lq1x0c9p", "lq1x0d2r">>

\* The time and the random digits set a generated id apart from the ids
\* held in the store; which string it is does not matter to the service, so
\* the first of the strings that no stored reading has stands for all.
FreshIds(items) ==
    LET fresh == {k \in 1..Len(GeneratedIds) :
                     \A i \in 1..Len(items) : ~StrictEquals(items[i].id, Str(GeneratedIds[k]))}
    IN {GeneratedIds[k] : k \in {k \in fresh : \A j \in fresh : k <= j}}

\* new Date() at the time of the calls
Now == DateVal(700)

\* The objects of the tests (a full reading, one without buildingId, one of
\* negative energy, one of negative emissions, one with an id), and objects
\* with an empty buildingId, with NaN for the energy and with the same id
\* for another building, read at midnight of Sunday 29 January.
CreateInputs ==
    { [buildingId |-> Str("B-101"), deviceId |-> Str("D-001"),
       energyConsumption |-> Num(Rat(457, 10)), carbonEmissions |-> Num(Rat(123, 10))],
      [deviceId |-> Str("D-001"), energyConsumption |-> Num(Rat(457, 10))],
      [buildingId |-> Str("B-101"), deviceId |-> Str("D-001"),
       energyConsumption |-> Num(R(-10))],
      [buildingId |-> Str("B-101"), deviceId |-> Str("D-001"),
       energyConsumption |-> Num(Rat(457, 10)), carbonEmissions |-> Num(R(-5))],
      [id |-> Str("test-id-123"), buildingId |-> Str("B-101")],
      [buildingId |-> Str(""), energyConsumption |-> Num(R(1))],
      [id |-> Str("test-id-123"), buildingId |-> Str("B-101"),
       energyConsumption |-> Num(NaN)],
      [id |-> Str("test-id-123"), buildingId |-> Str("B-102"),
       timestamp |-> DateVal(672)] }

\* Objects given to the constructor alone: those, and one with an empty id
\* and a time of its own.
ConstructorInputs ==
    CreateInputs \cup {[id |-> Str(""), buildingId |-> Str("B-102"), timestamp |-> DateVal(681)]}

\* Changes of a stored reading: a new energy together with another id, a
\* negative energy, negative emissions, a buildingId set to undefined or to
\* "", and NaN for the energy.
UpdateInputs ==
    { [id |-> Str("other-id"), energyConsumption |-> Num(R(50))],
      [energyConsumption |-> Num(R(-1))],
      [carbonEmissions |-> Num(R(-5))],
      [buildingId |-> Undef],
      [buildingId |-> Str("")],
      [energyConsumption |-> Num(NaN)] }

\* The ids asked for: the id the callers give, the first two generated ids
\* and one that no reading has.
LookupIds ==
    {Str("test-id-123"), Str("no-such-id"), Str(GeneratedIds[1]), Str(GeneratedIds[2])}

\* The filter of a request without parameters; a building; the days 28 to 29 of the count (Sunday 29 and
\* Monday 30 January), whose first midnight is the time of a reading, and
\* the days 27 to 28, whose last midnight is; a building within days; a
\* start alone, an end alone and a device.
Filters ==
    { [buildingId |-> Undef, startDate |-> Undef, endDate |-> Undef],
      [buildingId |-> Str("B-101")],
      [startDate |-> DateString(28), endDate |-> DateString(29)],
      [startDate |-> DateString(27), endDate |-> DateString(28)],
      [buildingId |-> Str("B-101"), startDate |-> DateString(28),
       endDate |-> DateString(30)],
      [startDate |-> DateString(29)],
      [endDate |-> DateString(28)],
      [deviceId |-> Str("D-002")] }

InitStore ==
    /\ data = Arr(<<>>)
    /\ call = NoCall
    /\ ret = <<>>
    /\ tzOffset = 0

\* new CarbonData(input), validate() not being called
NewCarbonData ==
    \E input \in ConstructorInputs, generated \in FreshIds(data.items) :
        /\ call' = [op |-> "new CarbonData", input |-> input]
        /\ ret' = Returned(CarbonData(input, generated, Now))
        /\ UNCHANGED <<data, tzOffset>>

CreateCarbonData ==
    \E input \in CreateInputs, generated \in FreshIds(data.items) :
        LET newData == CarbonData(input, generated, Now)
            valid == validate(newData)
        IN /\ valid.threw \/ Len(data.items) < MaxStore
           /\ call' = [op |-> "createCarbonData", input |-> input]
           /\ IF valid.threw
              THEN ret' = valid /\ data' = data
              ELSE ret' = Returned(newData) /\ data' = Arr(Append(data.items, newData))
           /\ UNCHANGED tzOffset

UpdateCarbonData ==
    \E id \in LookupIds, updateData \in UpdateInputs :
        LET index == FindIndex(data.items, id)
        IN /\ call' = [op |-> "updateCarbonData", id |-> id, input |-> updateData]
           /\ IF index = 0
              THEN ret' = Returned(Null) /\ data' = data
              ELSE LET stored == data.items[index]
                       updatedData ==
                           CarbonData(Spread(Spread(stored, updateData), [id |-> stored.id]),
                                      "", Now)
                       valid == validate(updatedData)
                   IN IF valid.threw
                      THEN ret' = valid /\ data' = data
                      ELSE /\ ret' = Returned(updatedData)
                           /\ data' = Arr([data.items EXCEPT ![index] = updatedData])
           /\ UNCHANGED tzOffset

DeleteCarbonData ==
    \E id \in LookupIds :
        LET index == FindIndex(data.items, id)
        IN /\ call' = [op |-> "deleteCarbonData", id |-> id]
           /\ IF index = 0
              THEN ret' = Returned(FALSE) /\ data' = data
              ELSE ret' = Returned(TRUE) /\ data' = Arr(Splice(data.items, index))
           /\ UNCHANGED tzOffset

GetCarbonDataById ==
    \E id \in LookupIds :
        /\ call' = [op |-> "getCarbonDataById", id |-> id]
        /\ ret' = Returned(getCarbonDataById(data.items, id))
        /\ UNCHANGED <<data, tzOffset>>

GetAllCarbonData ==
    \E filter \in Filters :
        /\ call' = [op |-> "getAllCarbonData", filter |-> filter]
        /\ ret' = Returned(getAllCarbonData(data.items, filter, tzOffset))
        /\ UNCHANGED <<data, tzOffset>>

\* The caller takes the last element off the array it was given.
PopResult ==
    /\ call.op = "getAllCarbonData"
    /\ Len(ret.value) > 0
    /\ call' = [op |-> "pop"]
    /\ ret' = Returned(SubSeq(ret.value, 1, Len(ret.value) - 1))
    /\ data' = StoreBesideResult(data, SubSeq(ret.value, 1, Len(ret.value) - 1))
    /\ UNCHANGED tzOffset

NextStore ==
    \/ NewCarbonData
    \/ CreateCarbonData
    \/ UpdateCarbonData
    \/ DeleteCarbonData
    \/ GetCarbonDataById
    \/ GetAllCarbonData
    \/ PopResult

SpecStore == InitStore /\ [][NextStore]_vars

-----------------------------------------------------------------------------
(* Properties of the data service *)

\* A number that is 0 or more.
NotNegative(v) == v.type = "number" /\ v.value # NaN /\ ~RLt(v.value, R(0))

\* A string other than "".
NonEmptyString(v) == v.type = "string" /\ v.value # ""

ValidReading(o) ==
    /\ NonEmptyString(o.buildingId)
    /\ NotNegative(o.energyConsumption)
    /\ NotNegative(o.carbonEmissions)

StoreValid == \A i \in 1..Len(data.items) : ValidReading(data.items[i])

\* What the values of an object ask of validate(): the first of the three
\* errors that applies, or none.
Verdict(buildingId, energyConsumption, carbonEmissions) ==
    IF ~Truthy(buildingId) THEN Threw("Building ID is required")
    ELSE IF BelowZero(energyConsumption) THEN Threw("Energy consumption cannot be negative")
    ELSE IF BelowZero(carbonEmissions) THEN Threw("Carbon emissions cannot be negative")
    ELSE Returned(TRUE)

\* The verdict on the object given to createCarbonData.
VerdictOnInput(input) ==
    Verdict(Prop(input, "buildingId"), Prop(input, "energyConsumption"),
            Prop(input, "carbonEmissions"))

\* A create throws the error of its input or returns a valid reading; an
\* update that throws is one of a stored reading and throws the error of
\* that reading with the changes laid over it, and one that returns a
\* reading returns a valid one.
RejectsWhatWouldBreak ==
    /\ call.op = "createCarbonData" =>
          LET verdict == VerdictOnInput(call.input)
          IN IF verdict.threw THEN ret = verdict
             ELSE ~ret.threw /\ ValidReading(ret.value)
    /\ call.op = "updateCarbonData" =>
          /\ ret.threw =>
                LET index == FindIndex(data.items, call.id)
                IN /\ index > 0
                   /\ ret = VerdictOnInput(Spread(data.items[index], call.input))
          /\ (~ret.threw /\ ret.value # Null) => ValidReading(ret.value)

\* C18: every reading of the store has a buildingId that is not empty and
\* energy and emissions of 0 or more; a create or update that would break
\* this throws the error of the broken rule, and a call that throws leaves
\* the store as it was.
C18_StoreStaysValid ==
    /\ []StoreValid
    /\ []RejectsWhatWouldBreak
    /\ [][ret'.threw => data' = data]_vars

\* An update of a stored reading to a negative energy is thrown back while
\* the store holds two readings.
C18_Witness ==
    /\ call.op = "updateCarbonData"
    /\ ret = Threw("Energy consumption cannot be negative")
    /\ Len(data.items) = 2
    /\ \E i \in 1..Len(data.items) : StrictEquals(data.items[i].id, call.id)

\* A property the caller gave, as the constructed object has it.
KeptAsGiven(input, o) == \A f \in DOMAIN input : o[f] = input[f]

\* C19 as stated: constructing a reading of negative energy, negative
\* emissions or without buildingId throws, and a constructed reading has
\* every value the caller gave.
C19_ConstructionRejectsInvalid ==
    call.op = "new CarbonData" =>
        IF VerdictOnInput(call.input).threw
        THEN ret.threw
        ELSE ~ret.threw /\ KeptAsGiven(call.input, ret.value)

\* C20 as stated: no two readings of the store have the same id.
C20_UniqueIds ==
    \A i \in 1..Len(data.items) : \A j \in 1..Len(data.items) :
        StrictEquals(data.items[i].id, data.items[j].id) => i = j

\* The step is a call of updateCarbonData that returns.
UpdateReturns == call'.op = "updateCarbonData" /\ ~ret'.threw

\* The reading an update returns: the id of the stored reading, the values
\* of the patch where it has them, those of the stored reading elsewhere.
Patched(stored, patch, updated) ==
    /\ updated.id = stored.id
    /\ \A f \in DOMAIN stored \ {"id"} :
          updated[f] = IF f \in DOMAIN patch THEN patch[f] ELSE stored[f]

\* An update replaces the reading it finds by the patched one where it is,
\* and one that finds none returns null and changes nothing.
UpdateInPlace ==
    UpdateReturns =>
        LET index == FindIndex(data.items, call'.id)
        IN IF index = 0
           THEN ret'.value = Null /\ data' = data
           ELSE /\ Patched(data.items[index], call'.input, ret'.value)
                /\ data' = Arr([data.items EXCEPT ![index] = ret'.value])

\* getCarbonDataById of the id right after an update returned a reading
\* gives that reading.
ReadsBackUpdate ==
    (/\ call.op = "updateCarbonData"
     /\ ~ret.threw
     /\ call'.op = "getCarbonDataById"
     /\ call'.id = call.id) => ret'.value = ret.value

\* C21 as stated: an update of a stored id returns, and puts in the place
\* of, the reading with the original id, the patch's values and the other
\* values as they were, which getCarbonDataById then returns; on another id
\* it returns null and changes nothing.
C21_UpdatePatchesInPlace == [][UpdateInPlace /\ ReadsBackUpdate]_vars

\* A patch none of whose values the constructor replaces: no NaN.
PlainPatch(patch) ==
    \A f \in DOMAIN patch : patch[f].type = "number" => patch[f].value # NaN

\* The same for the patches whose values are no NaN.
UpdatePatchesInPlaceUnlessNaN ==
    [][((UpdateReturns /\ PlainPatch(call'.input)) => UpdateInPlace) /\ ReadsBackUpdate]_vars

\* The step is a call of deleteCarbonData.
DeleteStep == call'.op = "deleteCarbonData"

\* A delete removes the one reading it finds, the others staying as they
\* are and in their order, and returns true; one that finds none returns
\* false and changes nothing.
DeleteRemovesOne ==
    DeleteStep =>
        LET index == FindIndex(data.items, call'.id)
        IN IF index = 0
           THEN ret'.value = FALSE /\ data' = data
           ELSE /\ ret'.value = TRUE
                /\ Len(data'.items) = Len(data.items) - 1
                /\ \A i \in 1..Len(data'.items) :
                      data'.items[i] = data.items[IF i < index THEN i ELSE i + 1]

\* After a delete returned true no reading of the id can be got.
DeletedIsGone ==
    (call.op = "deleteCarbonData" /\ ret.value = TRUE) =>
        getCarbonDataById(data.items, call.id) = Null

\* C22 as stated: after deleteCarbonData(id) returned true getCarbonDataById(id)
\* returns null, the store has one entry fewer and the others keep their
\* order; on an id that is not stored it returns false and changes nothing.
C22_DeleteRemovesTheId == []DeletedIsGone /\ [][DeleteRemovesOne]_vars

\* Where the filter names a building the reading is of it, and where it has
\* both dates the reading's time is from the first to the last, both
\* included.
Satisfies(item, filter, tz) ==
    /\ Truthy(Prop(filter, "buildingId")) => item.buildingId = filter.buildingId
    /\ (Truthy(Prop(filter, "startDate")) /\ Truthy(Prop(filter, "endDate"))) =>
          /\ ToDate(filter.startDate, tz) <= ToDate(item.timestamp, tz)
          /\ ToDate(item.timestamp, tz) <= ToDate(filter.endDate, tz)

C23_WitnessOfCopy ==
    /\ call.op = "pop"
    /\ Len(ret.value) = 1
    /\ Len(data.items) = 2

\* C24 as stated: a start alone keeps the readings from it on, an end alone
\* those up to it, a device those of the device.
C24_EachCriterionApplied ==
    call.op = "getAllCarbonData" =>
        \A i \in 1..Len(ret.value) :
            LET item == ret.value[i]
            IN /\ Truthy(Prop(call.filter, "startDate")) =>
                      ToDate(call.filter.startDate, tzOffset) <= ToDate(item.timestamp, tzOffset)
               /\ Truthy(Prop(call.filter, "endDate")) =>
                      ToDate(item.timestamp, tzOffset) <= ToDate(call.filter.endDate, tzOffset)
               /\ Truthy(Prop(call.filter, "deviceId")) =>
                      item.deviceId = call.filter.deviceId

-----------------------------------------------------------------------------
(* The data simulator (src/utils/dataSimulator.js)

   A simulation is the closure of startSimulation: its count, its flag
   running, its interval timer and its maxReadings are held in the variable
   call, with the last value that getCount() returned (-1 before the first
   call); ret is the list of the objects that createCarbonData returned to
   the simulation, and data is the store of the data service. *)

buildings ==
    << [id |-> "B-101", name |-> "City Hall", type |-> "government"],
       [id |-> "B-102", name |-> "Community Center", type |-> "public"],
       [id |-> "B-103", name |-> "Public Library", type |-> "public"],
       [id |-> "B-104", name |-> "Police Station", type |-> "government"],
       [id |-> "B-105", name |-> "Fire Station", type |-> "government"] >>

devices ==
    << [id |-> "D-001", type |-> "hvac"],
       [id |-> "D-002", type |-> "lighting"],
       [id |-> "D-003", type |-> "power"],
       [id |-> "D-004", type |-> "water"] >>

\* Number((random * (max - min) + min).toFixed(decimals)), random being
\* the value of Math.random()
randomNumber(random, min, max, decimals) ==
    Fixed(RAdd(RMul(random, RSub(max, min)), min), decimals)

\* Math.floor(random * length), counted from 1
RandomIndex(random, length) ==
    LET scaled == RMul(random, R(length)) IN scaled.n \div scaled.d + 1

\* The bounds of the switch on the type of the device: of the energy, of the
\* factor of the emissions, of the temperature and of the humidity.
DeviceRanges(type) ==
    CASE type = "hvac" ->
           [energy |-> <<R(10), R(50)>>, factor |-> <<Rat(2, 10), Rat(5, 10)>>,
            temperature |-> <<R(18), R(24)>>, humidity |-> <<R(40), R(60)>>]
      [] type = "lighting" ->
           [energy |-> <<R(2), R(15)>>, factor |-> <<Rat(1, 10), Rat(3, 10)>>,
            temperature |-> <<R(20), R(25)>>, humidity |-> <<R(35), R(55)>>]
      [] type = "power" ->
           [energy |-> <<R(30), R(100)>>, factor |-> <<Rat(3, 10), Rat(6, 10)>>,
            temperature |-> <<R(22), R(28)>>, humidity |-> <<R(30), R(50)>>]
      [] type = "water" ->
           [energy |-> <<R(5), R(20)>>, factor |-> <<Rat(5, 100), Rat(2, 10)>>,
            temperature |-> <<R(15), R(22)>>, humidity |-> <<R(50), R(80)>>]

\* generateSimulatedReading(), random being the values of its six calls of
\* Math.random() in their order: for the building, the device, the energy,
\* the factor of the emissions, the temperature and the humidity.
generateSimulatedReading(random) ==
    LET building == buildings[RandomIndex(random[1], Len(buildings))]
        device == devices[RandomIndex(random[2], Len(devices))]
        ranges == DeviceRanges(device.type)
        energyConsumption == randomNumber(random[3], ranges.energy[1], ranges.energy[2], 2)
    IN [buildingId |-> Str(building.id),
        deviceId |-> Str(device.id),
        energyConsumption |-> Num(energyConsumption),
        carbonEmissions |->
            Num(RMul(energyConsumption,
                     randomNumber(random[4], ranges.factor[1], ranges.factor[2], 2))),
        temperature |->
            Num(randomNumber(random[5], ranges.temperature[1], ranges.temperature[2], 1)),
        humidity |->
            Num(randomNumber(random[6], ranges.humidity[1], ranges.humidity[2], 1)),
        metadata |-> [type |-> "object",
                      value |-> [buildingName |-> building.name,
                                 buildingType |-> building.type,
                                 deviceType |-> device.type]]]

\* createCarbonData(input) on the store items: what it gives and the store
\* after it.
createCarbonData(items, input, generated, now) ==
    LET newData == CarbonData(input, generated, now)
        valid == validate(newData)
    IN IF valid.threw THEN [result |-> valid, items |-> items]
       ELSE [result |-> Returned(newData), items |-> Append(items, newData)]

\* The test of the callback with > in place of >=.
HaltedPastMaximum(sim) ==
    ~sim.running \/ (sim.maxReadings > 0 /\ sim.count > sim.maxReadings)

\* !running || (maxReadings > 0 && count >= maxReadings)
Halted(sim) ==
    ~sim.running \/ (sim.maxReadings > 0 /\ sim.count >= sim.maxReadings)

-----------------------------------------------------------------------------
(* Inputs of the simulator *)

MaxSimReadings == 3

\* Values of the six calls of Math.random() of one reading, each from 0 up
\* to but not 1: one list for each type of device.
RandomDraws ==
    { <<R(0), R(0), R(0), R(0), R(0), R(0)>>,
      <<Rat(1, 4), Rat(1, 4), Rat(1, 2), Rat(1, 2), Rat(1, 4), Rat(1, 4)>>,
      <<Rat(1, 2), Rat(1, 2), Rat(99, 100), R(0), Rat(1, 2), Rat(1, 2)>>,
      <<Rat(99, 100), Rat(99, 100), Rat(1, 4), Rat(99, 100), Rat(99, 100), Rat(99, 100)>> }

\* What generateSimulatedReading() returns for these values.
SimulatedReadings == { generateSimulatedReading(random) : random \in RandomDraws }

\* A reading that a client stored under its own id before the simulation.
EarlierReading ==
    CarbonData(Spread(generateSimulatedReading(<<R(0), R(0), R(0), R(0), R(0), R(0)>>),
                      [id |-> Str("test-id-123")]),
               GeneratedIds[1], Now)

\* The state when startSimulation(interval, maxReadings) has returned.
InitSimulation ==
    /\ data \in {Arr(<<>>), Arr(<<EarlierReading>>)}
    /\ \E maxReadings \in 0..MaxSimReadings :
          call = [op |-> "startSimulation", maxReadings |-> maxReadings,
                  count |-> 0, running |-> TRUE, timer |-> TRUE, got |-> -1]
    /\ ret = <<>>
    /\ tzOffset = 0

\* The callback of setInterval, which runs while the timer is set.
Tick ==
    /\ call.timer
    /\ IF Halted(call)
       THEN /\ call' = [call EXCEPT !.timer = FALSE]
            /\ UNCHANGED <<data, ret, tzOffset>>
       ELSE /\ Len(ret) < MaxSimReadings
            /\ \E reading \in SimulatedReadings, generated \in FreshIds(data.items) :
                  LET created == createCarbonData(data.items, reading, generated, Now)
                  IN IF created.result.threw
                     THEN UNCHANGED <<data, call, ret, tzOffset>>
                     ELSE /\ data' = Arr(created.items)
                          /\ call' = [call EXCEPT !.count = @ + 1]
                          /\ ret' = Append(ret, created.result.value)
                          /\ UNCHANGED tzOffset

\* stop()
Stop ==
    /\ call' = [call EXCEPT !.running = FALSE]
    /\ UNCHANGED <<data, ret, tzOffset>>

\* getCount()
GetCount ==
    /\ call' = [call EXCEPT !.got = call.count]
    /\ UNCHANGED <<data, ret, tzOffset>>

NextSimulation == Tick \/ Stop \/ GetCount

SpecSimulation == InitSimulation /\ [][NextSimulation]_vars

\* The timer fires again and again while it is set.
SpecSimulationFair == InitSimulation /\ [][NextSimulation]_vars /\ WF_vars(Tick)

-----------------------------------------------------------------------------
(* Properties of the simulator *)

\* The ids of the readings of a list.
IdsOf(items) == {items[i].id : i \in 1..Len(items)}

\* count is the number of the readings that the simulation stored, each of
\* which the store holds, and with maxReadings above 0 it is at most
\* maxReadings.
CountsItsReadings ==
    /\ call.count = Len(ret)
    /\ IdsOf(ret) \subseteq IdsOf(data.items)
    /\ Cardinality(IdsOf(ret)) = Len(ret)
    /\ call.maxReadings > 0 => Len(ret) <= call.maxReadings
    /\ ~call.timer => Halted(call)

\* A step stores at most one reading, and none once stop() was called or
\* the timer was cleared; getCount() gives the number of the readings
\* stored; a tick of a halted simulation clears the timer.
SimulationStep ==
    /\ Len(data'.items) <= Len(data.items) + 1
    /\ (~call.running \/ ~call.timer) => data' = data /\ ret' = ret
    /\ ~call.running => ~call'.running
    /\ call'.got # call.got => call'.got = Len(ret')
    /\ (Halted(call) /\ call'.timer # call.timer) => ~call'.timer
    /\ (Halted(call) /\ call.timer /\ call'.running = call.running
           /\ call'.got = call.got) => ~call'.timer

\* C30: every tick creates at most one reading; with maxReadings above 0
\* the simulation never stores more than maxReadings readings; after
\* stop() no reading is created; in both cases the next tick clears the
\* timer, so that the simulation stops ticking; and getCount() is the
\* number of the readings that the simulation stored.
C30_SimulationStopsAndCounts ==
    /\ []CountsItsReadings
    /\ [][SimulationStep]_vars
    /\ (Halted(call) ~> ~call.timer)

\* A simulation of at most 2 readings stored 2 beside an earlier reading
\* of the store, its timer was cleared without stop(), and getCount()
\* gave 2.
C30_Witness ==
    /\ call.op = "startSimulation"
    /\ call.maxReadings = 2
    /\ call.running
    /\ ~call.timer
    /\ call.got = 2
    /\ Len(ret) = 2
    /\ Len(data.items) = 3

====
